---- MODULE Spec2Model ----
(***************************************************************************)
(* Tile-cache generation engine of Qtiler (src/python/generate_cache.py): *)
(* one run of the script = resolve zoom / publish ranges and the grid,    *)
(* iterate the tiles (render, wait, save, retry), merge the run's entry   *)
(* into index.json, report the final status and exit.  Runs follow each   *)
(* other on the same cache directory and the same index.json.             *)
(***************************************************************************)
EXTENDS Integers, Sequences, FiniteSets, TLC

(***************************************************************************)
(* Bounds of the model.                                                    *)
(***************************************************************************)
MaxZoom == 2        \* --zoom_min / --zoom_max / --publish_zoom_* range over 0..MaxZoom
MaxRetries == 1     \* --tile_retries ranges over 0..MaxRetries
MaxFaults == 2      \* failing outcomes (timeout, render error, failed save)
MaxSignals == 1     \* termination signals delivered
MaxRuns == 2        \* runs of the script on the same cache directory
MaxTimeout == 2     \* --render_timeout_ms, in polling intervals: 1..MaxTimeout
MaxBytes == 3       \* bytes of a written image: 1..MaxBytes; MIN_TILE_BYTES: 0..MaxBytes
MaxJobs == 2        \* run commands sent to the worker loop, jobIds 1..MaxJobs
MaxLines == 1       \* lines a child writes on each of its streams; ping commands
MaxCalls == 3       \* calls of get_project in one worker process

(***************************************************************************)
(* Program constants.  Lengths are in model units: the world half-width M  *)
(* of the xyz grid is 4 units (1 unit = 20037508.342789244 / 4 metres).    *)
(***************************************************************************)
M == 4
DefaultZoomMax == 2
\* the polls of the fallback wait, range(1000) at 525, in model units
FallbackPolls == 2
\* for attempt in range(3), 632
MoveAttempts == 3

Min(a, b) == IF a <= b THEN a ELSE b
Max(a, b) == IF a >= b THEN a ELSE b
Pow2(n) == 2 ^ n
\* math.ceil(a / b) for a >= 0, b > 0
CeilDiv(a, b) == (a + b - 1) \div b
SeqMin(s) == CHOOSE v \in {s[i] : i \in DOMAIN s} : \A i \in DOMAIN s : v <= s[i]
SeqMax(s) == CHOOSE v \in {s[i] : i \in DOMAIN s} : \A i \in DOMAIN s : v >= s[i]

\* Python's None is the empty sequence, a value v is <<v>>.
None == << >>
Some(v) == <<v>>

(***************************************************************************)
(* The grid preset given with --tile_matrix_preset, as normalised by       *)
(* _normalize_preset_definition: origin (-4, 4), tiles of 2 pixels,        *)
(* resolutions 4, 2, 1 units per pixel for the levels 0, 1, 2, and a level *)
(* 3 whose entry gives neither resolution nor scale_denominator            *)
(* (resolution None and scale_denominator 0.0 after normalisation, 0 here).*)
(***************************************************************************)
PresetMatrix(level, res, w, h) ==
    [source_level |-> level, resolution |-> res, tile_width |-> 2, tile_height |-> 2,
     matrix_width |-> w, matrix_height |-> h, origin_x |-> -4, origin_y |-> 4]

tile_matrix_preset ==
    [id |-> "grid", origin_x |-> -4, origin_y |-> 4,
     matrices |-> << PresetMatrix(0, 4, 1, 1), PresetMatrix(1, 2, 2, 2),
                     PresetMatrix(2, 1, 4, 4), PresetMatrix(3, 0, 2, 1) >>]

\* crs-scale-presets.json entry of the tile CRS: the tile span (tile_size *
\* scale_denominator * 0.00028) of each scale, in model units.
ScaleProfileSpans == <<8, 4>>

_matrix_source_level(m) == m.source_level

(***************************************************************************)
(* scheme resolution, generate_cache.py 1406-1410                          *)
(***************************************************************************)
ResolveScheme(a) ==
    IF a.preset THEN "wmts"
    ELSE IF a.scheme = "auto"
         THEN (IF a.tile_crs = "EPSG:3857" THEN "xyz"
               ELSE IF a.wmts THEN "wmts" ELSE "custom")
         ELSE a.scheme

\* zoom_min / zoom_max defaults, 1412-1417
ResolveZoom(a) ==
    IF a.zoom_min = 0 /\ a.zoom_max = 0 THEN <<0, DefaultZoomMax>>
    ELSE <<a.zoom_min, a.zoom_max>>

(***************************************************************************)
(* publish_zoom_min / publish_zoom_max resolution, 1419-1440: the values   *)
(* before the scheme branch adjusts them.  zoom is <<zoom_min, zoom_max>>. *)
(***************************************************************************)
publish_min_explicit(a) == a.publish_zoom_min # None
publish_max_explicit(a) == a.publish_zoom_max # None

ResolvePublish(a, scheme, zoom) ==
    LET pmin0 == IF a.publish_zoom_min = None THEN zoom[1] ELSE a.publish_zoom_min[1]
        pmax0 == IF a.publish_zoom_max = None THEN zoom[2] ELSE a.publish_zoom_max[1]
        pmin  == Max(0, pmin0)
        pmax  == Max(pmin, pmax0)
    IN  IF scheme # "wmts" THEN <<zoom[1], zoom[2]>> ELSE <<pmin, pmax>>

(***************************************************************************)
(* A level of the enumeration plan: the tiles x0..x1 by y0..y1 of level z, *)
(* visited column by column (for x: for y:).  skip: the level is passed    *)
(* over by the render loop (preset matrix without a resolution).           *)
(***************************************************************************)
Level(z, x0, x1, y0, y1) == [z |-> z, x0 |-> x0, x1 |-> x1, y0 |-> y0, y1 |-> y1, skip |-> FALSE]
NCols(l) == Max(0, l.x1 - l.x0 + 1)
NRows(l) == Max(0, l.y1 - l.y0 + 1)
NTiles(l) == NCols(l) * NRows(l)
TileAt(l, i) == <<l.z, l.x0 + ((i - 1) \div NRows(l)), l.y0 + ((i - 1) % NRows(l))>>

RECURSIVE SumTiles(_)
SumTiles(levels) ==
    IF levels = << >> THEN 0 ELSE NTiles(Head(levels)) + SumTiles(Tail(levels))

ZoomLevels(zmin, zmax) == [i \in 1..Max(0, zmax - zmin + 1) |-> zmin + i - 1]

(***************************************************************************)
(* xyz, 1449-1491                                                          *)
(***************************************************************************)
ClampM(v) == Max(-M, Min(M, v))
x_to_tile(x, tiles) == ((x + M) * tiles) \div (2 * M)
y_to_tile(y, tiles) == ((M - y) * tiles) \div (2 * M)
\* x_to_tile(x - 1e-6, tiles): the largest column strictly left of x
x_to_tile_eps(x, tiles) == ((x + M) * tiles - 1) \div (2 * M)
ClampTile(v, tiles) == Max(0, Min(tiles - 1, v))

XyzExtentInvalid(e) ==
    ClampM(e[3]) <= ClampM(e[1]) \/ ClampM(e[4]) <= ClampM(e[2])

\* tile_ranges[z]; y_to_tile(ex_maxy - 1e-6) is y_to_tile(ex_maxy) on this grid
tile_ranges(e, z) ==
    LET tiles == Pow2(z)
    IN  Level(z, ClampTile(x_to_tile(ClampM(e[1]), tiles), tiles),
                 ClampTile(x_to_tile_eps(ClampM(e[3]), tiles), tiles),
                 ClampTile(y_to_tile(ClampM(e[4]), tiles), tiles),
                 ClampTile(y_to_tile(ClampM(e[2]), tiles), tiles))

XyzWorldLevel(z) == Level(z, 0, Pow2(z) - 1, 0, Pow2(z) - 1)

XyzPlan(a, zoom) ==
    LET zs == ZoomLevels(zoom[1], zoom[2])
    IN  [i \in DOMAIN zs |->
            IF a.xyz_mode = "world" THEN XyzWorldLevel(zs[i]) ELSE tile_ranges(a.extent, zs[i])]

XyzExpected(a, zoom) ==
    LET zs == ZoomLevels(zoom[1], zoom[2])
        s  == SumTiles([i \in DOMAIN zs |-> tile_ranges(a.extent, zs[i])])
    IN  IF s <= 0 THEN 1 ELSE s

\* a mistaken count: in world mode the sum over the spans of the extent is kept
XyzWorldExpected_kept(zoom, expected) == expected

\* expected_total recomputed at the end of each level in world mode, 1560-1561
XyzWorldExpected(zoom, expected) ==
    LET zs == ZoomLevels(zoom[1], zoom[2])
        s  == SumTiles([i \in DOMAIN zs |-> XyzWorldLevel(zs[i])])
    IN  IF s = 0 THEN expected ELSE s

(***************************************************************************)
(* custom, 1875-1894                                                       *)
(***************************************************************************)
ExtentInvalid(e) == e[3] - e[1] <= 0 \/ e[4] - e[2] <= 0

CustomPlan(zoom) ==
    LET zs == ZoomLevels(zoom[1], zoom[2])
    IN  [i \in DOMAIN zs |-> Level(zs[i], 0, Pow2(zs[i]) - 1, 0, Pow2(zs[i]) - 1)]

CustomExpected(zoom) ==
    LET s == SumTiles(CustomPlan(zoom)) IN IF s = 0 THEN 1 ELSE s

(***************************************************************************)
(* wmts with a preset, 1577-1630                                           *)
(***************************************************************************)
\* a mistaken grid: the origin of a matrix is taken from the cache extent
MatrixOrigin_fromExtent(e, m) == <<e[1], e[4]>>

\* origin_x = matrix.get("origin_x", 0.0); origin_y = matrix.get("origin_y", 0.0):
\* the extent e has no part in it
MatrixOrigin(e, m) == <<m.origin_x, m.origin_y>>

\* _compute_tile_span: None, or the clamped span of the matrix the extent meets
_compute_tile_span(e, m) ==
    IF e[3] <= e[1] \/ e[4] <= e[2] THEN None
    ELSE IF m.resolution <= 0 THEN None
    ELSE LET tile_w_mu == m.tile_width * m.resolution
             tile_h_mu == m.tile_height * m.resolution
             matrix_w  == Max(1, m.matrix_width)
             matrix_h  == Max(1, m.matrix_height)
             c0 == (e[1] - m.origin_x) \div tile_w_mu
             c1 == (e[3] - m.origin_x) \div tile_w_mu
             r0 == (m.origin_y - e[4]) \div tile_h_mu
             r1 == (m.origin_y - e[2]) \div tile_h_mu
             min_col == Max(0, Min(matrix_w - 1, Min(c0, c1)))
             max_col == Max(0, Min(matrix_w - 1, Max(c0, c1)))
             min_row == Max(0, Min(matrix_h - 1, Min(r0, r1)))
             max_row == Max(0, Min(matrix_h - 1, Max(r0, r1)))
         IN  IF max_col < min_col \/ max_row < min_row THEN None
             ELSE Some([min_col |-> min_col, max_col |-> max_col,
                        min_row |-> min_row, max_row |-> max_row,
                        origin_x |-> MatrixOrigin(e, m)[1],
                        origin_y |-> MatrixOrigin(e, m)[2]])

\* the span of one selected matrix: the computed one, or the whole matrix
PresetSpan(e, m) ==
    LET got  == _compute_tile_span(e, m)
        span == IF got = None
                THEN [min_col |-> 0, max_col |-> m.matrix_width - 1,
                      min_row |-> 0, max_row |-> m.matrix_height - 1,
                      origin_x |-> MatrixOrigin(e, m)[1],
                      origin_y |-> MatrixOrigin(e, m)[2]]
                ELSE got[1]
    IN  [z |-> m.source_level,
         x0 |-> Max(0, Min(m.matrix_width - 1, span.min_col)),
         x1 |-> Max(0, Min(m.matrix_width - 1, span.max_col)),
         y0 |-> Max(0, Min(m.matrix_height - 1, span.min_row)),
         y1 |-> Max(0, Min(m.matrix_height - 1, span.max_row)),
         skip |-> (m.resolution = 0),
         origin_x |-> span.origin_x, origin_y |-> span.origin_y]

InRange(m, lo, hi) == lo <= _matrix_source_level(m) /\ _matrix_source_level(m) <= hi

\* selected: the preset matrices within [zoom_min, zoom_max], all of them if none
selected(zoom) ==
    LET s == SelectSeq(tile_matrix_preset.matrices, LAMBDA m : InRange(m, zoom[1], zoom[2]))
    IN  IF s = << >> THEN tile_matrix_preset.matrices ELSE s

publish_matrices(pub) ==
    LET s == SelectSeq(tile_matrix_preset.matrices, LAMBDA m : InRange(m, pub[1], pub[2]))
    IN  IF s = << >> THEN tile_matrix_preset.matrices ELSE s

LevelsOf(ms) == [i \in DOMAIN ms |-> _matrix_source_level(ms[i])]

\* tile_runs: the spans to render (a span that the clamp inverts is left out)
tile_runs(e, zoom) ==
    LET sel   == selected(zoom)
        spans == [i \in DOMAIN sel |-> PresetSpan(e, sel[i])]
    IN  SelectSeq(spans, LAMBDA s : ~(s.x1 < s.x0 \/ s.y1 < s.y0))

PresetExpected(e, zoom) ==
    LET s   == SumTiles(tile_runs(e, zoom))
        sel == selected(zoom)
        all == SumTiles([i \in DOMAIN sel |->
                   Level(0, 1, Max(1, sel[i].matrix_width), 1, Max(1, sel[i].matrix_height))])
    IN  IF s > 0 THEN s ELSE IF all = 0 THEN 1 ELSE all

\* publish range with a preset, 1580-1596: <<published min, published max>>
PresetPublish(a, pub) ==
    LET all  == LevelsOf(tile_matrix_preset.matrices)
        pub1 == IF ~publish_min_explicit(a) /\ ~publish_max_explicit(a) /\ all # << >>
                THEN <<SeqMin(all), SeqMax(all)>> ELSE pub
        lv   == LevelsOf(publish_matrices(pub1))
    IN  IF lv # << >> THEN <<SeqMin(lv), SeqMax(lv)>> ELSE pub1

(***************************************************************************)
(* wmts without a preset, 1725-1801: a scale profile of the tile CRS, or   *)
(* the grid derived from the extent itself.                                *)
(***************************************************************************)
total_levels == Len(ScaleProfileSpans)
_clamp_level(value) == Max(0, Min(total_levels - 1, value))

ProfileZoom(zoom) == <<_clamp_level(zoom[1]), _clamp_level(zoom[2])>>

ProfilePublish(a, pub) ==
    LET pub1 == IF ~publish_min_explicit(a) /\ ~publish_max_explicit(a)
                THEN <<0, total_levels - 1>> ELSE pub
    IN  <<_clamp_level(pub1[1]), _clamp_level(pub1[2])>>

ProfileMatrix(e, idx) ==
    Level(idx, 0, Max(1, CeilDiv(e[3] - e[1], ScaleProfileSpans[idx + 1])) - 1,
               0, Max(1, CeilDiv(e[4] - e[2], ScaleProfileSpans[idx + 1])) - 1)

SyntheticPublish(pub, zoom) == <<Min(pub[1], zoom[1]), Max(pub[2], zoom[2])>>

\* res_z = res0 / 2^(z - zoom_min) with res0 = max(width, height) / TILE_SIZE, so
\* width / (TILE_SIZE * res_z) = width * 2^(z - zoom_min) / max(width, height)
SyntheticMatrix(e, zmin, z) ==
    LET width == e[3] - e[1]
        height == e[4] - e[2]
        side == Max(width, height)
        mw == IF z >= zmin THEN CeilDiv(width * Pow2(z - zmin), side)
                           ELSE CeilDiv(width, side * Pow2(zmin - z))
        mh == IF z >= zmin THEN CeilDiv(height * Pow2(z - zmin), side)
                           ELSE CeilDiv(height, side * Pow2(zmin - z))
    IN  Level(z, 0, Max(1, mw) - 1, 0, Max(1, mh) - 1)

WmtsPlan(a, zoom) ==
    LET zs == ZoomLevels(zoom[1], zoom[2])
    IN  [i \in DOMAIN zs |->
            IF a.profile THEN ProfileMatrix(a.extent, zs[i])
            ELSE SyntheticMatrix(a.extent, zoom[1], zs[i])]

WmtsExpected(a, zoom) ==
    LET s == SumTiles(WmtsPlan(a, zoom)) IN IF s = 0 THEN 1 ELSE s

(***************************************************************************)
(* What a run resolves before the first tile: the scheme, the zoom range   *)
(* it renders, the publish range it records, the enumeration plan and      *)
(* expected_total; fatal when the extent is rejected (sys.exit(1)).        *)
(***************************************************************************)
Setup(a) ==
    LET scheme == ResolveScheme(a)
        zoom0  == ResolveZoom(a)
        pub0   == ResolvePublish(a, scheme, zoom0)
    IN  IF scheme = "xyz" THEN
            [scheme |-> scheme, zoom |-> zoom0, publish |-> pub0,
             fatal |-> XyzExtentInvalid(a.extent),
             plan |-> IF XyzExtentInvalid(a.extent) THEN << >> ELSE XyzPlan(a, zoom0),
             expected |-> IF XyzExtentInvalid(a.extent) THEN 0 ELSE XyzExpected(a, zoom0)]
        ELSE IF scheme = "wmts" /\ a.preset THEN
            [scheme |-> scheme, zoom |-> zoom0, publish |-> PresetPublish(a, pub0),
             fatal |-> FALSE,
             plan |-> tile_runs(a.extent, zoom0), expected |-> PresetExpected(a.extent, zoom0)]
        ELSE IF scheme = "wmts" /\ a.profile THEN
            [scheme |-> scheme, zoom |-> ProfileZoom(zoom0), publish |-> ProfilePublish(a, pub0),
             fatal |-> ExtentInvalid(a.extent),
             plan |-> IF ExtentInvalid(a.extent) THEN << >> ELSE WmtsPlan(a, ProfileZoom(zoom0)),
             expected |-> IF ExtentInvalid(a.extent) THEN 0
                          ELSE WmtsExpected(a, ProfileZoom(zoom0))]
        ELSE IF scheme = "wmts" THEN
            [scheme |-> scheme, zoom |-> zoom0, publish |-> SyntheticPublish(pub0, zoom0),
             fatal |-> ExtentInvalid(a.extent),
             plan |-> IF ExtentInvalid(a.extent) THEN << >> ELSE WmtsPlan(a, zoom0),
             expected |-> IF ExtentInvalid(a.extent) THEN 0 ELSE WmtsExpected(a, zoom0)]
        ELSE
            [scheme |-> scheme, zoom |-> zoom0, publish |-> pub0,
             fatal |-> ExtentInvalid(a.extent),
             plan |-> CustomPlan(zoom0), expected |-> CustomExpected(zoom0)]

(***************************************************************************)
(* index.json, 1953-2105                                                   *)
(***************************************************************************)
\* wmts_matrices: with a preset the matrices to publish, each with the origin
\* of its preset matrix (1709-1721); otherwise the levels of the matrix range,
\* each with the top-left corner of the extent (1733-1795)
wmts_matrices(a, zoom, publish) ==
    IF a.preset
    THEN LET pm == publish_matrices(publish)
         IN  [i \in DOMAIN pm |->
                 [z |-> pm[i].source_level, top_left |-> MatrixOrigin(a.extent, pm[i])]]
    ELSE LET lo == IF a.profile THEN Min(publish[1], zoom[1]) ELSE publish[1]
             hi == IF a.profile THEN Max(publish[2], zoom[2]) ELSE publish[2]
             zs == ZoomLevels(lo, hi)
         IN  [i \in DOMAIN zs |-> [z |-> zs[i], top_left |-> <<a.extent[1], a.extent[4]>>]]

\* layer_entry["tile_matrix_set"], 2002-2042: absent unless the scheme is wmts
tile_matrix_set(a, scheme, zoom, publish) ==
    IF scheme # "wmts" THEN None
    ELSE Some([top_left_corner |->
                   IF a.preset THEN <<tile_matrix_preset.origin_x, tile_matrix_preset.origin_y>>
                   ELSE <<a.extent[1], a.extent[4]>>,
               matrices |-> wmts_matrices(a, zoom, publish)])

\* layer_entry before the merge, 1974-2042
layer_entry(a, scheme, zoom, publish) ==
    [name |-> a.name, kind |-> a.kind, extent |-> a.extent,
     zoom_min |-> publish[1], zoom_max |-> publish[2],
     published_zoom_min |-> publish[1], published_zoom_max |-> publish[2],
     cached_zoom_min |-> zoom[1], cached_zoom_max |-> zoom[2],
     scheme |-> scheme,
     tile_matrix_set |-> tile_matrix_set(a, scheme, zoom, publish)]

\* _safe_int of a stored value (None stays None)
_safe_int(v) == IF v = None THEN None ELSE Some(Max(0, v[1]))

\* _merge_range: min and max over the values that are not None
_merge_range(prev_min, prev_max, new_min, new_max) ==
    LET values == prev_min \o prev_max \o new_min \o new_max
    IN  IF values = << >> THEN <<None, None>>
        ELSE <<Some(SeqMin(values)), Some(SeqMax(values))>>

SameKey(l, a) == l.name = a.name /\ l.kind = a.kind

\* a mistaken merge: the extent of the run always replaces the stored one
KeepExtent_overwrite(existing, entry, a) == entry

\* with --extent given, the extent already stored is kept, 2063-2072
KeepExtent(existing, entry, a) ==
    IF a.extent_override_provided /\ Len(existing.extent) = 4
    THEN [entry EXCEPT !.extent = existing.extent] ELSE entry

\* the entry appended when existing_entry was found, 2063-2102
MergedEntry(existing, entry, a, zoom, publish) ==
    LET e1 == KeepExtent(existing, entry, a)
        pp0 == <<_safe_int(Some(existing.published_zoom_min)),
                 _safe_int(Some(existing.published_zoom_max))>>
        pp  == IF pp0[1] = None /\ pp0[2] = None
               THEN <<_safe_int(Some(existing.zoom_min)), _safe_int(Some(existing.zoom_max))>>
               ELSE pp0
        merged_publish == _merge_range(pp[1], pp[2], Some(publish[1]), Some(publish[2]))
        e2 == IF merged_publish[1] # None
              THEN [e1 EXCEPT !.zoom_min = merged_publish[1][1],
                              !.zoom_max = merged_publish[2][1],
                              !.published_zoom_min = merged_publish[1][1],
                              !.published_zoom_max = merged_publish[2][1]]
              ELSE e1
        pc0 == <<_safe_int(Some(existing.cached_zoom_min)),
                 _safe_int(Some(existing.cached_zoom_max))>>
        pcc == IF pc0[1] = None /\ pc0[2] = None
               THEN <<_safe_int(Some(existing.zoom_min)), _safe_int(Some(existing.zoom_max))>>
               ELSE pc0
        merged_cached == _merge_range(pcc[1], pcc[2], Some(zoom[1]), Some(zoom[2]))
    IN  IF merged_cached[1] # None
        THEN [e2 EXCEPT !.cached_zoom_min = merged_cached[1][1],
                        !.cached_zoom_max = merged_cached[2][1]]
        ELSE e2

\* a mistaken write: the entry of the run is appended, the stored one is kept too
MergeLayers_append(snapshot, a, scheme, zoom, publish) ==
    Append(snapshot, layer_entry(a, scheme, zoom, publish))

\* a mistaken write: index.json is overwritten with the entry of the run alone
MergeLayers_overwrite(snapshot, a, scheme, zoom, publish) ==
    <<layer_entry(a, scheme, zoom, publish)>>

\* a mistaken write: what was read is written back without the entry of the run
MergeLayers_keep(snapshot, a, scheme, zoom, publish) == snapshot

\* index["layers"] after the merge: the other entries in their order, then the
\* run's entry
MergeLayers(snapshot, a, scheme, zoom, publish) ==
    LET same   == SelectSeq(snapshot, LAMBDA l : SameKey(l, a))
        others == SelectSeq(snapshot, LAMBDA l : ~SameKey(l, a))
        entry  == layer_entry(a, scheme, zoom, publish)
    IN  Append(others, IF same = << >> THEN entry
                       ELSE MergedEntry(same[1], entry, a, zoom, publish))

\* the layers read from index.json: none when the file is absent (a fresh index
\* is made) or cannot be parsed (index = {})
LoadLayers(file) == IF file.state = "ok" THEN file.layers ELSE << >>

\* a mistaken status: error as soon as a tile failed
FinalStatus_anyError(flag, expected, generated, errors) ==
    IF flag THEN "aborted" ELSE IF errors > 0 THEN "error" ELSE "completed"

\* final_status, 2107
FinalStatus(flag, expected, generated, errors) ==
    IF flag THEN "aborted"
    ELSE IF expected > 0 /\ generated = 0 /\ errors > 0 THEN "error" ELSE "completed"

\* exit_code, 2114-2116
ExitCode(flag, expected, generated, errors) ==
    IF ~flag /\ expected > 0 /\ generated = 0 /\ errors > 0 THEN 2 ELSE 0

(***************************************************************************)
(* State.                                                                  *)
(*   Kept between runs: index_file (index.json) and files (the tile files  *)
(*   at their canonical paths, as <<name, kind, z, x, y>>); runs, faults   *)
(*   and signals count what the environment has done so far.               *)
(*   Of the running script: everything else.  terminate is                 *)
(*   _terminate["flag"]; renders counts the render jobs started; files0 is *)
(*   the cache as the run found it; stdout and stderr hold the status /    *)
(*   progress records and the warnings and errors written so far.          *)
(***************************************************************************)
VARIABLES index_file, files, runs, faults, signals,
          pc, args, terminate, scheme, zoom, publish, plan, files0, expected_total,
          lvl, pos, attempts, success, last_err,
          total_generated, level_generated, error_count,
          renders, index_read, final_status, exit_code,
          stdout, stderr,
          job_api, job, timeout_sec, clock, polls, wpc, finished,
          min_bytes, img_bytes, dest, tmp, bad_tiles, locked, spc, move_attempt, saved,
          loop, job_threads, worker_out,
          current_project_path, project_content, project_calls

\* _wait_for_job: the job and the wait
wait_state == <<job_api, job, timeout_sec, clock, polls, wpc, finished>>
\* _atomic_save_image: the files of one tile and the save
save_state == <<min_bytes, img_bytes, dest, tmp, bad_tiles, locked, spc, move_attempt, saved>>
attempt_state == <<wait_state, save_state>>
\* worker_loop.py: main_loop, the run_job threads and the lines written to stdout
\* worker_wrapper.py: the module globals of get_project, and the calls made so far
wrapper_state == <<current_project_path, project_content, project_calls>>
worker_state == <<loop, job_threads, worker_out, wrapper_state>>

vars == <<index_file, files, runs, faults, signals,
          pc, args, terminate, scheme, zoom, publish, plan, files0, expected_total,
          lvl, pos, attempts, success, last_err,
          total_generated, level_generated, error_count,
          renders, index_read, final_status, exit_code,
          stdout, stderr, attempt_state, worker_state>>

kept    == <<index_file, files>>
env     == <<runs, faults, signals>>
setup   == <<args, scheme, zoom, publish, plan, files0>>
cursor  == <<lvl, pos>>
tilevar == <<attempts, success, last_err>>
counts  == <<total_generated, level_generated, error_count>>
index   == <<index_read, final_status>>

NoArgs == [name |-> "", kind |-> ""]

\* index.json as the run found it; NotRead until the run gets there
NotRead == [state |-> "none", layers |-> << >>]
layers_snapshot == LoadLayers(index_read)

Running == pc \notin {"idle", "exited"}
CurLevel == plan[lvl]
TileFile(a, t) == <<a.name, a.kind>> \o t
CurTile == TileFile(args, TileAt(CurLevel, pos))

\* no render job is being waited for and no tile is being saved
AttemptAtRest ==
    /\ job_api = "none"
    /\ job = "none"
    /\ timeout_sec = 0
    /\ clock = 0
    /\ polls = 0
    /\ wpc = "idle"
    /\ finished = "none"
    /\ min_bytes = 0
    /\ img_bytes = 0
    /\ dest = "absent"
    /\ tmp = "absent"
    /\ bad_tiles = "absent"
    /\ locked = {}
    /\ spc = "idle"
    /\ move_attempt = 0
    /\ saved = "none"

\* the jobIds of the run commands the master sends, each sent once
JobIds == 1..MaxJobs

\* worker_loop.py started, no command read yet
WorkerAtRest ==
    /\ loop = "reading"
    /\ job_threads = [j \in JobIds |-> "none"]
    /\ worker_out = << >>
    /\ current_project_path = None
    /\ project_content = None
    /\ project_calls = << >>

Init ==
    /\ WorkerAtRest
    /\ index_file \in {[state |-> "absent", layers |-> << >>],
                       [state |-> "corrupt", layers |-> << >>]}
    /\ files = {}
    /\ runs = 0
    /\ faults = 0
    /\ signals = 0
    /\ pc = "idle"
    /\ args = NoArgs
    /\ terminate = FALSE
    /\ scheme = ""
    /\ zoom = <<0, 0>>
    /\ publish = <<0, 0>>
    /\ plan = << >>
    /\ files0 = {}
    /\ expected_total = 0
    /\ lvl = 0
    /\ pos = 0
    /\ attempts = 0
    /\ success = FALSE
    /\ last_err = ""
    /\ total_generated = 0
    /\ level_generated = 0
    /\ error_count = 0
    /\ renders = 0
    /\ index_read = NotRead
    /\ final_status = ""
    /\ exit_code = -1
    /\ stdout = << >>
    /\ stderr = << >>
    /\ AttemptAtRest

(***************************************************************************)
(* The guards before any tile work, 1161-1201 and the extent checks of the *)
(* scheme branches: what makes the script leave, or "none".                *)
(***************************************************************************)
FatalInput(a) ==
    IF ~a.project_readable THEN "project"
    ELSE IF ~a.target_found THEN "target"
    ELSE IF a.remote /\ ~a.allow_remote THEN "remote"
    ELSE IF Setup(a).fatal THEN "extent"
    ELSE "none"

\* sys.exit(2) for a remote provider without allow_remote, sys.exit(1) otherwise
FatalExitCode(what) == IF what = "remote" THEN 2 ELSE 1

(***************************************************************************)
(* The script is started with arguments a: a fresh process (flag clear,    *)
(* counters zero) passes the guards, resolves the scheme, the ranges and   *)
(* the grid, and leaves with a non-zero exit code when a guard or the      *)
(* extent check of its scheme rejects the input.                           *)
(***************************************************************************)
\* from line 442 on: _terminate = {"flag": False} binds the name to a new flag,
\* _graceful_exit is installed, the command line is parsed and the run set up
Begin(a) ==
    /\ LET s == Setup(a) IN
        /\ args' = a
        /\ scheme' = s.scheme
        /\ zoom' = s.zoom
        /\ publish' = s.publish
        /\ plan' = s.plan
        /\ expected_total' = s.expected
        /\ pc' = IF FatalInput(a) # "none" THEN "exited" ELSE "level"
        /\ exit_code' = IF FatalInput(a) # "none" THEN FatalExitCode(FatalInput(a)) ELSE -1
        /\ stderr' = IF FatalInput(a) # "none"
                     THEN <<[ev |-> "error", what |-> FatalInput(a)]>> ELSE << >>
    /\ files0' = files
    /\ terminate' = FALSE
    /\ lvl' = 1
    /\ pos' = 0
    /\ attempts' = 0
    /\ success' = FALSE
    /\ last_err' = ""
    /\ total_generated' = 0
    /\ level_generated' = 0
    /\ error_count' = 0
    /\ renders' = 0
    /\ index_read' = NotRead
    /\ final_status' = ""
    /\ stdout' = << >>
    /\ UNCHANGED <<worker_state, attempt_state, kept, faults, signals>>

\* a run of the script when no signal arrives before line 442
StartRun(a) ==
    /\ pc \in {"idle", "exited"}
    /\ runs < MaxRuns
    /\ runs' = runs + 1
    /\ Begin(a)

\* lines 19-27: _terminate = {"flag": False}, handle_abort installed for SIGTERM
\* and SIGINT; the imports and the environment set-up of 28-440 follow
InstallHandlers ==
    /\ pc \in {"idle", "exited"}
    /\ runs < MaxRuns
    /\ runs' = runs + 1
    /\ pc' = "startup"
    /\ terminate' = FALSE
    /\ UNCHANGED <<worker_state, attempt_state, kept, faults, signals, setup, expected_total, cursor,
                   tilevar, counts, renders, index, exit_code, stdout, stderr>>

\* line 442 reached with the handlers of line 25 in place
Rebind(a) ==
    /\ pc = "startup"
    /\ UNCHANGED runs
    /\ Begin(a)

\* SIGTERM / SIGINT: _graceful_exit sets the flag, at any point of the run
Signal ==
    /\ Running
    /\ ~terminate
    /\ signals < MaxSignals
    /\ signals' = signals + 1
    /\ terminate' = TRUE
    /\ UNCHANGED <<worker_state, attempt_state, kept, runs, faults, pc, setup, expected_total, cursor, tilevar, counts,
                   renders, index, exit_code, stdout, stderr>>

\* for z in ...: if _terminate["flag"]: break
LevelHead ==
    /\ pc = "level"
    /\ IF lvl > Len(plan) \/ terminate
       THEN /\ pc' = "afterLoops"
            /\ UNCHANGED <<lvl, pos, level_generated>>
       ELSE IF CurLevel.skip
       THEN /\ lvl' = lvl + 1
            /\ UNCHANGED <<pc, pos, level_generated>>
       ELSE /\ pc' = "tile"
            /\ pos' = 1
            /\ level_generated' = 0
            /\ UNCHANGED lvl
    /\ UNCHANGED <<worker_state, attempt_state, kept, env, setup, terminate, expected_total, tilevar, total_generated,
                   error_count, renders, index, exit_code, stdout, stderr>>

\* a mistaken loop: an existing tile is rendered again
SkipTile_never == FALSE

\* if args.skip_existing and os.path.exists(out_file)
SkipTile == args.skip_existing /\ CurTile \in files

\* a mistaken loop: a tile is retried until it succeeds
MoreAttempts_unbounded == ~success /\ ~terminate

\* while attempts <= max(0, int(args.tile_retries)) and not success and not flag
MoreAttempts == attempts <= Max(0, args.tile_retries) /\ ~success /\ ~terminate

\* a mistaken record: the count of the level is written as the cumulative count
LevelDoneEvent_levelCount(generated_level, generated, expected) ==
    [ev |-> "level_done", z |-> CurLevel.z, generated_level |-> generated_level,
     total_generated |-> generated_level, expected_total |-> expected]

LevelDoneEvent(generated_level, generated, expected) ==
    [ev |-> "level_done", z |-> CurLevel.z, generated_level |-> generated_level,
     total_generated |-> generated, expected_total |-> expected]

\* for x: for y: the flag is read at each boundary; an existing tile is counted and
\* passed over under --skip_existing; at the end of the level (or on the flag)
\* the level_done record is written
TileHead ==
    /\ pc = "tile"
    /\ IF pos > NTiles(CurLevel) \/ terminate
       THEN LET expected == IF scheme = "xyz" /\ args.xyz_mode = "world"
                            THEN XyzWorldExpected(zoom, expected_total)
                            ELSE expected_total
            IN  /\ expected_total' = expected
                /\ stdout' = Append(stdout,
                                LevelDoneEvent(level_generated, total_generated, expected))
                /\ lvl' = lvl + 1
                /\ pc' = "level"
                /\ UNCHANGED <<pos, tilevar, total_generated, level_generated>>
       ELSE IF SkipTile
       THEN /\ total_generated' = total_generated + 1
            /\ level_generated' = level_generated + 1
            /\ pos' = pos + 1
            /\ UNCHANGED <<pc, lvl, expected_total, tilevar, stdout>>
       ELSE /\ attempts' = 0
            /\ success' = FALSE
            /\ last_err' = ""
            /\ pc' = "retry"
            /\ UNCHANGED <<lvl, pos, expected_total, total_generated, level_generated, stdout>>
    /\ UNCHANGED <<worker_state, attempt_state, kept, env, setup, terminate, error_count, renders, index,
                   exit_code, stderr>>

\* while attempts <= max(0, tile_retries) and not success and not flag:
\*     attempts += 1; job.start()
\* and after the loop the tile is counted as generated or as an error
Retry ==
    /\ pc = "retry"
    /\ IF MoreAttempts
       THEN /\ attempts' = attempts + 1
            /\ renders' = renders + 1
            /\ pc' = "waiting"
            /\ UNCHANGED <<pos, counts, stderr>>
       ELSE /\ IF success
               THEN /\ total_generated' = total_generated + 1
                    /\ level_generated' = level_generated + 1
                    /\ UNCHANGED <<error_count, stderr>>
               ELSE /\ error_count' = error_count + 1
                    /\ stderr' = Append(stderr, [ev |-> "tile_skipped", tile |-> CurTile,
                                                 reason |-> last_err, attempts |-> attempts])
                    /\ UNCHANGED <<total_generated, level_generated>>
            /\ pos' = pos + 1
            /\ pc' = "tile"
            /\ UNCHANGED <<attempts, renders>>
    /\ UNCHANGED <<worker_state, attempt_state, kept, env, setup, terminate, expected_total, lvl, success, last_err,
                   index, exit_code, stdout>>

\* _wait_for_job returns: True when the job ended, False on the flag (job
\* cancelled), on the timeout (render_timeout warning) or on an exception; an
\* exception of the renderer itself is caught by the attempt.
WaitOutcomes == {"finished", "timeout", "error", "cancelled"}

WaitReturn(o) ==
    /\ pc = "waiting"
    /\ (o = "cancelled") <=> terminate
    /\ IF o = "finished"
       THEN /\ pc' = "rendered"
            /\ UNCHANGED <<faults, stderr, last_err>>
       ELSE IF o = "cancelled"
       THEN /\ last_err' = "timeout"
            /\ pc' = "retry"
            /\ UNCHANGED <<faults, stderr>>
       ELSE /\ faults < MaxFaults
            /\ faults' = faults + 1
            /\ last_err' = IF o = "timeout" THEN "timeout" ELSE "exception"
            /\ stderr' = IF o = "timeout"
                         THEN Append(stderr, [ev |-> "render_timeout", tile |-> CurTile])
                         ELSE stderr
            /\ pc' = "retry"
    /\ UNCHANGED <<worker_state, attempt_state, kept, runs, signals, setup, terminate, expected_total, cursor, attempts,
                   success, counts, renders, index, exit_code, stdout>>

\* xyz only, 1530-1535: the flag is read between the render and the save, and
\* the script leaves with sys.exit(1)
AbortBeforeSave ==
    /\ pc = "rendered"
    /\ spc = "idle"
    /\ scheme = "xyz"
    /\ terminate
    /\ stderr' = Append(stderr, [ev |-> "info", what |-> "Aborted before saving tile"])
    /\ exit_code' = 1
    /\ pc' = "exited"
    /\ UNCHANGED <<worker_state, attempt_state, kept, env, setup, terminate, expected_total, cursor, tilevar, counts,
                   renders, index, stdout>>

\* _atomic_save_image: True and the tile is at its path; False when the image is
\* too small (quarantined), cannot be written, or cannot be moved into place (the
\* move may already have removed the file that was there).
SaveOutcomes == {"ok", "too_small", "write_failed", "move_failed", "move_failed_removed"}

SaveTile(o) ==
    /\ pc = "rendered"
    /\ ~(scheme = "xyz" /\ terminate)
    /\ IF o = "ok"
       THEN /\ files' = files \cup {CurTile}
            /\ success' = TRUE
            /\ UNCHANGED <<faults, last_err>>
       ELSE /\ faults < MaxFaults
            /\ faults' = faults + 1
            /\ files' = IF o = "move_failed_removed" THEN files \ {CurTile} ELSE files
            /\ success' = FALSE
            /\ last_err' = "save_failed_or_too_small"
    /\ pc' = "retry"
    /\ UNCHANGED <<worker_state, attempt_state, index_file, runs, signals, setup, terminate, expected_total, cursor,
                   attempts, counts, renders, index, exit_code, stdout, stderr>>

\* after the loops: if _terminate["flag"]: the aborted status record
AfterLoops ==
    /\ pc = "afterLoops"
    /\ stdout' = IF terminate
                 THEN Append(stdout, [ev |-> "status", status |-> "aborted",
                                      total_generated |-> total_generated,
                                      expected_total |-> expected_total])
                 ELSE stdout
    /\ pc' = "indexUpdate"
    /\ UNCHANGED <<worker_state, attempt_state, kept, env, setup, terminate, expected_total, cursor, tilevar, counts,
                   renders, index, exit_code, stderr>>

\* the index.json block, 1953-2109: load, merge, write, final_status and the
\* index_written record (the file can be opened and written: the except branch
\* of 2110-2111 is not taken)
IndexUpdate ==
    /\ pc = "indexUpdate"
    /\ index_read' = index_file
    /\ index_file' = [state |-> "ok",
                      layers |-> MergeLayers(LoadLayers(index_file), args, scheme, zoom, publish)]
    /\ final_status' = FinalStatus(terminate, expected_total, total_generated, error_count)
    /\ stdout' = Append(stdout,
          [ev |-> "index_written", tiles_generated |-> total_generated,
           status |-> FinalStatus(terminate, expected_total, total_generated, error_count),
           expected_total |-> expected_total, errors |-> error_count])
    /\ pc' = "exitCode"
    /\ UNCHANGED <<worker_state, attempt_state, files, env, setup, terminate, expected_total, cursor, tilevar,
                   counts, renders, exit_code, stderr>>

\* the process is killed (SIGKILL, power) inside `with open(index_path, "w") as f:
\* json.dump(index, f)`, 2104-2105: open has truncated index.json and the dump
\* has written none or a part of the new text, which json.load cannot parse
KillInIndexWrite ==
    /\ pc = "indexUpdate"
    /\ index_read' = index_file
    /\ index_file' = [state |-> "corrupt", layers |-> << >>]
    /\ pc' = "exited"
    /\ UNCHANGED <<worker_state, attempt_state, files, env, setup, terminate, expected_total, cursor, tilevar,
                   counts, renders, final_status, exit_code, stdout, stderr>>

\* exit_code and sys.exit, 2113-2118
Exit ==
    /\ pc = "exitCode"
    /\ exit_code' = ExitCode(terminate, expected_total, total_generated, error_count)
    /\ pc' = "exited"
    /\ UNCHANGED <<worker_state, attempt_state, kept, env, setup, terminate, expected_total, cursor, tilevar, counts,
                   renders, index, stdout, stderr>>

(***************************************************************************)
(* Command lines.                                                          *)
(***************************************************************************)
Extents == {<<-4, 0, 0, 4>>, <<-4, 2, -2, 4>>}

BaseArgs ==
    [name |-> "roads", kind |-> "layer", scheme |-> "custom", wmts |-> FALSE,
     preset |-> FALSE, profile |-> FALSE, tile_crs |-> "EPSG:3006",
     zoom_min |-> 1, zoom_max |-> 1, publish_zoom_min |-> None, publish_zoom_max |-> None,
     extent |-> <<-4, 2, -2, 4>>, extent_override_provided |-> FALSE,
     xyz_mode |-> "partial", skip_existing |-> FALSE, tile_retries |-> 0,
     project_readable |-> TRUE, target_found |-> TRUE, remote |-> FALSE,
     allow_remote |-> FALSE]

\* the ways a scheme is chosen
SchemeArgs ==
    { [BaseArgs EXCEPT !.scheme = "custom"],
      [BaseArgs EXCEPT !.scheme = "xyz", !.tile_crs = "EPSG:3857"],
      [BaseArgs EXCEPT !.scheme = "auto", !.wmts = TRUE],
      [BaseArgs EXCEPT !.scheme = "auto", !.preset = TRUE] }

EngineArgs ==
    { [a EXCEPT !.skip_existing = s, !.tile_retries = r] :
        a \in SchemeArgs, s \in BOOLEAN, r \in 0..MaxRetries }

\* the zoom ranges a command line can ask for, zoom_min > zoom_max among them
ZoomRanges == {<<zmin, zmax>> : zmin \in 0..MaxZoom, zmax \in 0..MaxZoom}

\* --publish_zoom_min / --publish_zoom_max: absent, or a level
PublishOptions == {None} \cup {Some(p) : p \in 0..MaxZoom}

Kinds == {"layer", "theme"}

XyzArgs == [BaseArgs EXCEPT !.scheme = "xyz", !.tile_crs = "EPSG:3857"]

\* every zoom range, on one catalog key
RangeArgs ==
    { [XyzArgs EXCEPT !.zoom_min = zr[1], !.zoom_max = zr[2]] : zr \in ZoomRanges }

\* two keys, two extents, with and without --extent (project_extent override)
KeyArgs ==
    { [XyzArgs EXCEPT !.kind = k, !.extent = e, !.extent_override_provided = ov,
                      !.zoom_min = zr[1], !.zoom_max = zr[2]] :
        k \in Kinds, e \in Extents, ov \in BOOLEAN, zr \in {<<1, 1>>, <<0, MaxZoom>>} }

\* wmts with publish options: a preset, a scale profile of the CRS, the derived grid
PublishArgs ==
    { [BaseArgs EXCEPT !.scheme = "auto", !.preset = TRUE, !.publish_zoom_min = p,
                       !.zoom_min = zr[1], !.zoom_max = zr[2]] :
        p \in PublishOptions, zr \in {<<1, 1>>, <<0, MaxZoom>>} }
    \cup
    { [BaseArgs EXCEPT !.scheme = "auto", !.wmts = TRUE, !.profile = pr,
                       !.publish_zoom_min = pmin, !.publish_zoom_max = pmax] :
        pr \in BOOLEAN, pmin \in {None, Some(0)}, pmax \in {None, Some(MaxZoom)} }

CatalogArgs ==
    RangeArgs \cup KeyArgs \cup PublishArgs \cup {[BaseArgs EXCEPT !.scheme = "custom"]}

Next ==
    \/ \E a \in EngineArgs : StartRun(a)
    \/ Signal
    \/ LevelHead
    \/ TileHead
    \/ Retry
    \/ \E o \in WaitOutcomes : WaitReturn(o)
    \/ AbortBeforeSave
    \/ \E o \in SaveOutcomes : SaveTile(o)
    \/ AfterLoops
    \/ IndexUpdate
    \/ Exit

Spec == Init /\ [][Next]_vars

\* the same script over the command lines that matter to index.json, with a
\* renderer and a disk that do not fail (what index.json receives does not
\* depend on how the tiles ended)
CatalogWaitOutcomes == {"finished", "cancelled"}
CatalogSaveOutcomes == {"ok"}

NextCatalog ==
    \/ \E a \in CatalogArgs : StartRun(a)
    \/ Signal
    \/ LevelHead
    \/ TileHead
    \/ Retry
    \/ \E o \in CatalogWaitOutcomes : WaitReturn(o)
    \/ AbortBeforeSave
    \/ \E o \in CatalogSaveOutcomes : SaveTile(o)
    \/ AfterLoops
    \/ IndexUpdate
    \/ Exit

SpecCatalog == Init /\ [][NextCatalog]_vars

\* the same runs, each of which can be killed while it writes index.json
NextCrash ==
    \/ NextCatalog
    \/ KillInIndexWrite

SpecCrash == Init /\ [][NextCrash]_vars

\* extents with maxX = minX, and with maxY < minY
InvalidExtents == {<<-2, 2, -2, 4>>, <<-4, 4, -2, 2>>}

\* an invalid extent under each way of choosing a scheme
InvalidExtentArgs == { [a EXCEPT !.extent = e] : a \in SchemeArgs, e \in InvalidExtents }

\* a project that cannot be read, a layer or theme that is not there, a remote
\* provider with and without --allow_remote
GuardArgs ==
    { [BaseArgs EXCEPT !.project_readable = FALSE],
      [BaseArgs EXCEPT !.target_found = FALSE],
      [BaseArgs EXCEPT !.kind = "theme", !.target_found = FALSE],
      [BaseArgs EXCEPT !.remote = TRUE],
      [BaseArgs EXCEPT !.remote = TRUE, !.allow_remote = TRUE] }

\* every zoom range in the custom scheme
CustomArgs ==
    { [BaseArgs EXCEPT !.scheme = "custom", !.zoom_min = zr[1], !.zoom_max = zr[2]] :
        zr \in ZoomRanges }

\* every zoom range with --xyz_mode world, over two extents
WorldArgs ==
    { [XyzArgs EXCEPT !.xyz_mode = "world", !.extent = e,
                      !.zoom_min = zr[1], !.zoom_max = zr[2]] :
        e \in Extents, zr \in ZoomRanges }

GridArgs == InvalidExtentArgs \cup GuardArgs \cup CustomArgs \cup WorldArgs

\* the same script over the command lines that decide what is enumerated, with
\* a renderer and a disk that do not fail
NextGrid ==
    \/ \E a \in GridArgs : StartRun(a)
    \/ Signal
    \/ LevelHead
    \/ TileHead
    \/ Retry
    \/ \E o \in CatalogWaitOutcomes : WaitReturn(o)
    \/ AbortBeforeSave
    \/ \E o \in CatalogSaveOutcomes : SaveTile(o)
    \/ AfterLoops
    \/ IndexUpdate
    \/ Exit

SpecGrid == Init /\ [][NextGrid]_vars

\* with a preset: two extents within the matrices and one that meets none of them
PresetExtents == {<<-4, 2, -2, 4>>, <<-4, 0, 0, 4>>, <<5, -7, 6, -6>>}

\* zoom ranges with a preset: within its levels, reaching its last level, and
\* one that holds no level of it
PresetZoomRanges == {<<1, 1>>, <<0, 1>>, <<1, 3>>, <<4, 4>>}

PresetArgs ==
    { [BaseArgs EXCEPT !.scheme = "auto", !.preset = TRUE, !.extent = e,
                       !.zoom_min = zr[1], !.zoom_max = zr[2], !.publish_zoom_min = p] :
        e \in PresetExtents, zr \in PresetZoomRanges, p \in {None, Some(0)} }

\* the same script over command lines with --tile_matrix_preset, with a
\* renderer and a disk that do not fail
NextPreset ==
    \/ \E a \in PresetArgs : StartRun(a)
    \/ Signal
    \/ LevelHead
    \/ TileHead
    \/ Retry
    \/ \E o \in CatalogWaitOutcomes : WaitReturn(o)
    \/ \E o \in CatalogSaveOutcomes : SaveTile(o)
    \/ AfterLoops
    \/ IndexUpdate
    \/ Exit

SpecPreset == Init /\ [][NextPreset]_vars

\* every extent on the unit grid that lies within the bounds of the xyz grid
InsideExtents ==
    { <<minx, miny, maxx, maxy>> : minx \in -M..M, miny \in -M..M, maxx \in -M..M, maxy \in -M..M }
    \ { e \in (-M..M) \X (-M..M) \X (-M..M) \X (-M..M) : e[3] <= e[1] \/ e[4] <= e[2] }

\* xyz partial mode over those extents and every zoom range
XyzSpanArgs ==
    { [XyzArgs EXCEPT !.extent = e, !.zoom_min = zr[1], !.zoom_max = zr[2]] :
        e \in InsideExtents, zr \in ZoomRanges }

ResolveArgs == XyzSpanArgs

\* the script from its start to the end of the grid resolution, once per
\* command line: what is enumerated is decided by then
NextResolve == \E a \in ResolveArgs : runs = 0 /\ StartRun(a)

SpecResolve == Init /\ [][NextResolve]_vars

\* runs of several levels in every scheme and mode, with and without
\* --skip_existing, over a renderer and a disk that can fail
ProgressArgs ==
    { [a EXCEPT !.skip_existing = s] :
        a \in { [BaseArgs EXCEPT !.scheme = "custom", !.zoom_min = 0, !.zoom_max = 1],
                [XyzArgs EXCEPT !.zoom_min = 1, !.zoom_max = 2],
                [XyzArgs EXCEPT !.xyz_mode = "world", !.zoom_min = 0, !.zoom_max = 1],
                [BaseArgs EXCEPT !.scheme = "auto", !.preset = TRUE, !.zoom_min = 0, !.zoom_max = 1],
                [BaseArgs EXCEPT !.scheme = "auto", !.wmts = TRUE, !.profile = TRUE,
                                 !.zoom_min = 0, !.zoom_max = 1],
                [BaseArgs EXCEPT !.scheme = "auto", !.wmts = TRUE, !.zoom_min = 0, !.zoom_max = 1] },
        s \in BOOLEAN }

NextProgress ==
    \/ \E a \in ProgressArgs : StartRun(a)
    \/ Signal
    \/ LevelHead
    \/ TileHead
    \/ Retry
    \/ \E o \in WaitOutcomes : WaitReturn(o)
    \/ AbortBeforeSave
    \/ \E o \in SaveOutcomes : SaveTile(o)
    \/ AfterLoops
    \/ IndexUpdate
    \/ Exit

SpecProgress == Init /\ [][NextProgress]_vars

\* the script from its first line, signals during the start-up included
NextSignal ==
    \/ InstallHandlers
    \/ \E a \in SchemeArgs : Rebind(a)
    \/ Signal
    \/ LevelHead
    \/ TileHead
    \/ Retry
    \/ \E o \in WaitOutcomes : WaitReturn(o)
    \/ AbortBeforeSave
    \/ \E o \in SaveOutcomes : SaveTile(o)
    \/ AfterLoops
    \/ IndexUpdate
    \/ Exit

SpecSignal == Init /\ [][NextSignal]_vars

(***************************************************************************)
(* worker_loop.py: main_loop reads commands from stdin and starts a daemon *)
(* thread run_job per run command; a thread launches generate_cache.py as  *)
(* a child, writes the started line, forwards the child's streams and      *)
(* writes the exit line once the child has ended.  The script run by the   *)
(* child is a black box here: it writes lines and ends with a code.        *)
(* job_threads[j]: "none", "accepted" (thread started), "running" (child   *)
(* launched), "exited" (exit line written), "crashed" (the thread ended on *)
(* an exception), "killed" (the process ended under the thread).           *)
(***************************************************************************)
engine_state == <<kept, env, pc, setup, terminate, expected_total, cursor, tilevar, counts,
                  renders, index, exit_code, stdout, stderr, attempt_state>>

Line(j, ev) == [jobId |-> j, event |-> ev]
Lines(j, ev) == {i \in DOMAIN worker_out : worker_out[i] = Line(j, ev)}

ChildCodes == {0, 1}

\* main_loop, cmd == 'run': threading.Thread(target=run_job, daemon=True).start()
AcceptRun(j) ==
    /\ loop = "reading"
    /\ job_threads[j] = "none"
    /\ job_threads' = [job_threads EXCEPT ![j] = "accepted"]
    /\ UNCHANGED <<loop, worker_out, wrapper_state, engine_state>>

\* main_loop, cmd == 'ping': the pong line (it carries no jobId: 0 here)
Ping ==
    /\ loop = "reading"
    /\ Cardinality(Lines(0, "pong")) < MaxLines
    /\ worker_out' = Append(worker_out, Line(0, "pong"))
    /\ UNCHANGED <<loop, job_threads, wrapper_state, engine_state>>

\* run_job: proc = subprocess.Popen(...), then the started line.  Popen raises
\* when the child cannot be launched: nothing in run_job catches it, the thread
\* ends there.
LaunchChild(j, launched) ==
    /\ loop = "reading"
    /\ job_threads[j] = "accepted"
    /\ IF launched
       THEN /\ worker_out' = Append(worker_out, Line(j, "started"))
            /\ job_threads' = [job_threads EXCEPT ![j] = "running"]
       ELSE /\ job_threads' = [job_threads EXCEPT ![j] = "crashed"]
            /\ UNCHANGED worker_out
    /\ UNCHANGED <<loop, wrapper_state, engine_state>>

\* forward_stream: a line of the child's stdout or stderr is written as an event;
\* the forwarders are joined for 0.1 s only, so they can outlast the exit line
ForwardLine(j, ev) ==
    /\ loop = "reading"
    /\ job_threads[j] \in {"running", "exited"}
    /\ Cardinality(Lines(j, ev)) < MaxLines
    /\ worker_out' = Append(worker_out, Line(j, ev))
    /\ UNCHANGED <<loop, job_threads, wrapper_state, engine_state>>

\* run_job: code = proc.wait() returns, the exit line is written
ChildExit(j, code) ==
    /\ loop = "reading"
    /\ job_threads[j] = "running"
    /\ worker_out' = Append(worker_out, [jobId |-> j, event |-> "exit", code |-> code])
    /\ job_threads' = [job_threads EXCEPT ![j] = "exited"]
    /\ UNCHANGED <<loop, wrapper_state, engine_state>>

\* end of stdin (or KeyboardInterrupt): main_loop returns and the process ends;
\* the run_job threads are daemon threads and end with it, wherever they are
EndOfInput ==
    /\ loop = "reading"
    /\ loop' = "ended"
    /\ job_threads' = [j \in JobIds |->
                          IF job_threads[j] \in {"accepted", "running"}
                          THEN "killed" ELSE job_threads[j]]
    /\ UNCHANGED <<worker_out, wrapper_state, engine_state>>

NextWorker ==
    \/ \E j \in JobIds : AcceptRun(j)
    \/ Ping
    \/ \E j \in JobIds, launched \in BOOLEAN : LaunchChild(j, launched)
    \/ \E j \in JobIds, ev \in {"stdout", "stderr"} : ForwardLine(j, ev)
    \/ \E j \in JobIds, code \in ChildCodes : ChildExit(j, code)
    \/ EndOfInput

\* a started thread gets to run, and a child that was launched ends
SpecWorker ==
    /\ Init
    /\ [][NextWorker]_vars
    /\ \A j \in JobIds :
          /\ WF_vars(\E launched \in BOOLEAN : LaunchChild(j, launched))
          /\ WF_vars(\E code \in ChildCodes : ChildExit(j, code))

(***************************************************************************)
(* worker_wrapper.py, get_project: one QgsProject instance is kept for the *)
(* process, with the path it was last loaded from.  project_content is     *)
(* what the instance holds: None before the first call, Some(path) after a *)
(* read that worked, Some("") once it was cleared and the read failed.     *)
(***************************************************************************)
ProjectPaths == {"a.qgs", "b.qgs"}

Call(path, outcome, content) == [path |-> path, outcome |-> outcome, content |-> content]

\* if _current_project_path == path: return _project_instance
CacheHit(path) == current_project_path = Some(path)

\* get_project(path); exists: os.path.exists(path), loads: _project_instance.read(path)
get_project(path, exists, loads) ==
    /\ Len(project_calls) < MaxCalls
    /\ IF ~exists
       THEN /\ project_calls' = Append(project_calls, Call(path, "FileNotFoundError", None))
            /\ UNCHANGED <<current_project_path, project_content>>
       ELSE IF CacheHit(path)
       THEN /\ project_calls' = Append(project_calls, Call(path, "returned", project_content))
            /\ UNCHANGED <<current_project_path, project_content>>
       ELSE IF ~loads
       THEN /\ project_content' = Some("")
            /\ project_calls' = Append(project_calls, Call(path, "ValueError", None))
            /\ UNCHANGED current_project_path
       ELSE /\ project_content' = Some(path)
            /\ current_project_path' = Some(path)
            /\ project_calls' = Append(project_calls, Call(path, "returned", Some(path)))
    /\ UNCHANGED <<loop, job_threads, worker_out, engine_state>>

NextProject ==
    \E path \in ProjectPaths, exists \in BOOLEAN, loads \in BOOLEAN :
        get_project(path, exists, loads)

SpecProject == Init /\ [][NextProject]_vars

(***************************************************************************)
(* _wait_for_job, 459-546, step by step.  The job exposes isActive,        *)
(* isFinished or neither; it may end at any moment, or never.  clock is    *)
(* the time since the wait began, in polling intervals; a status query may *)
(* raise.                                                                  *)
(***************************************************************************)
JobApis == {"isActive", "isFinished", "neither"}

Waiting == wpc \notin {"idle", "returned"}

\* job.cancel()
Cancelled(j) == IF j = "running" THEN "cancelled" ELSE j

\* the renderer finishes the job
JobEnds ==
    /\ Waiting
    /\ job = "running"
    /\ job' = "finished"
    /\ UNCHANGED <<job_api, timeout_sec, clock, polls, wpc, finished, save_state, worker_state,
                   kept, env, pc, setup, terminate, expected_total, cursor, tilevar, counts,
                   renders, index, exit_code, stdout, stderr>>

\* if _terminate["flag"]: job.cancel(); return False      (470-475, 499-504)
WaitCheckFlag ==
    /\ wpc = "flag"
    /\ IF terminate
       THEN /\ job' = Cancelled(job)
            /\ finished' = "False"
            /\ wpc' = "returned"
       ELSE /\ wpc' = "query"
            /\ UNCHANGED <<job, finished>>
    /\ UNCHANGED <<job_api, timeout_sec, clock, polls, save_state, worker_state,
                   kept, env, pc, setup, terminate, expected_total, cursor, tilevar, counts,
                   renders, index, exit_code, stdout, stderr>>

\* active = job.isActive() (False when the query raises) / done = job.isFinished()
\* (True when the query raises); return True when the job is not running
WaitQuery(raises) ==
    /\ wpc = "query"
    /\ raises => faults < MaxFaults
    /\ faults' = IF raises THEN faults + 1 ELSE faults
    /\ IF job # "running" \/ raises
       THEN /\ finished' = "True"
            /\ wpc' = "returned"
       ELSE /\ wpc' = "timeout"
            /\ UNCHANGED finished
    /\ UNCHANGED <<job_api, job, timeout_sec, clock, polls, save_state, worker_state,
                   kept, runs, signals, pc, setup, terminate, expected_total, cursor, tilevar,
                   counts, renders, index, exit_code, stdout, stderr>>

\* if timeout_sec and (now - start) > timeout_sec: cancel, render_timeout, return False
WaitCheckTimeout ==
    /\ wpc = "timeout"
    /\ IF timeout_sec # 0 /\ clock > timeout_sec
       THEN /\ job' = Cancelled(job)
            /\ stderr' = Append(stderr, [ev |-> "render_timeout", tile |-> CurTile])
            /\ finished' = "False"
            /\ wpc' = "returned"
       ELSE /\ wpc' = "sleep"
            /\ UNCHANGED <<job, stderr, finished>>
    /\ UNCHANGED <<job_api, timeout_sec, clock, polls, save_state, worker_state,
                   kept, env, pc, setup, terminate, expected_total, cursor, tilevar, counts,
                   renders, index, exit_code, stdout>>

\* _t.sleep(0.01); _pump_events()
WaitSleep ==
    /\ wpc = "sleep"
    /\ clock' = clock + 1
    /\ wpc' = "flag"
    /\ UNCHANGED <<job_api, job, timeout_sec, polls, finished, save_state, worker_state,
                   kept, env, pc, setup, terminate, expected_total, cursor, tilevar, counts,
                   renders, index, exit_code, stdout, stderr>>

\* the fallback, 523-532: for _ in range(1000): flag check, sleep
WaitPoll ==
    /\ wpc = "poll"
    /\ IF polls = FallbackPolls
       THEN /\ wpc' = "waitForFinished"
            /\ UNCHANGED <<job, finished, polls, clock>>
       ELSE IF terminate
       THEN /\ job' = Cancelled(job)
            /\ finished' = "False"
            /\ wpc' = "returned"
            /\ UNCHANGED <<polls, clock>>
       ELSE /\ polls' = polls + 1
            /\ clock' = clock + 1
            /\ UNCHANGED <<job, finished, wpc>>
    /\ UNCHANGED <<job_api, timeout_sec, save_state, worker_state,
                   kept, env, pc, setup, terminate, expected_total, cursor, tilevar, counts,
                   renders, index, exit_code, stdout, stderr>>

\* job.waitForFinished(), 534-536: returns when the job has ended (or raises)
WaitForFinished(raises) ==
    /\ wpc = "waitForFinished"
    /\ raises => faults < MaxFaults
    /\ job # "running" \/ raises
    /\ faults' = IF raises THEN faults + 1 ELSE faults
    /\ finished' = "True"
    /\ wpc' = "returned"
    /\ UNCHANGED <<job_api, job, timeout_sec, clock, polls, save_state, worker_state,
                   kept, runs, signals, pc, setup, terminate, expected_total, cursor, tilevar,
                   counts, renders, index, exit_code, stdout, stderr>>

\* time passes while waitForFinished has not returned
WaitBlocked ==
    /\ wpc = "waitForFinished"
    /\ job = "running"
    /\ clock <= MaxTimeout + 1
    /\ clock' = clock + 1
    /\ UNCHANGED <<job_api, job, timeout_sec, polls, wpc, finished, save_state, worker_state,
                   kept, env, pc, setup, terminate, expected_total, cursor, tilevar, counts,
                   renders, index, exit_code, stdout, stderr>>

(***************************************************************************)
(* _atomic_save_image, 550-685, step by step, on the files of one tile:    *)
(*   dest       the canonical path: "absent", "old" (an earlier tile),     *)
(*              "new" (the image of this save), "partial"                  *)
(*   tmp        the sibling temporary file: "absent", "partial", "complete"*)
(*   bad_tiles  the file under _bad_tiles: "absent", "present"             *)
(*   locked     what the file system refuses for the moment: "dest" (the   *)
(*              canonical path cannot be replaced or removed), "tmp" (the  *)
(*              temporary file cannot be moved or removed), "bad_dir"      *)
(*              (_bad_tiles cannot be created), "bad_path" (nothing can be *)
(*              moved into _bad_tiles)                                     *)
(***************************************************************************)
Locks == {"dest", "tmp", "bad_dir", "bad_path"}

Saving == spc \notin {"idle", "done", "killed"}

\* the run outside the two helpers, except files, faults, stdout and stderr
run_state == <<index_file, runs, signals, pc, setup, terminate, expected_total, cursor,
               tilevar, counts, renders, index, exit_code>>

\* if os.path.exists(tmp_path): os.remove(tmp_path), failures ignored
RemoveTmp == IF "tmp" \in locked THEN tmp ELSE "absent"

\* the file system starts / stops refusing something while the tile is saved
FsLock(f) ==
    /\ Saving
    /\ f \notin locked
    /\ faults < MaxFaults
    /\ faults' = faults + 1
    /\ locked' = locked \cup {f}
    /\ UNCHANGED <<worker_state, wait_state, run_state, files, stdout, stderr,
                   min_bytes, img_bytes, dest, tmp, bad_tiles, spc, move_attempt, saved>>

FsUnlock(f) ==
    /\ Saving
    /\ f \in locked
    /\ locked' = locked \ {f}
    /\ UNCHANGED <<worker_state, wait_state, run_state, files, faults, stdout, stderr,
                   min_bytes, img_bytes, dest, tmp, bad_tiles, spc, move_attempt, saved>>

\* the process is killed (SIGKILL, power) between two steps of the save
Kill ==
    /\ Saving
    /\ spc' = "killed"
    /\ UNCHANGED <<worker_state, wait_state, run_state, files, faults, stdout, stderr,
                   min_bytes, img_bytes, dest, tmp, bad_tiles, locked, move_attempt, saved>>

\* the call, 1537-1542 and 556-571: the image has ib bytes, MIN_TILE_BYTES is mb
SaveBegin(mb, ib) ==
    /\ pc = "rendered"
    /\ ~(scheme = "xyz" /\ terminate)
    /\ spc = "idle"
    /\ min_bytes' = mb
    /\ img_bytes' = ib
    /\ spc' = "write"
    /\ UNCHANGED <<worker_state, wait_state, run_state, files, faults, stdout, stderr,
                   dest, tmp, bad_tiles, locked, move_attempt, saved>>

\* a mistaken save: the image is written to the canonical path itself
SaveOpen_direct ==
    /\ spc = "write"
    /\ dest' = "partial"
    /\ spc' = "writing"
    /\ UNCHANGED <<worker_state, wait_state, run_state, files, faults, stdout, stderr,
                   min_bytes, img_bytes, tmp, bad_tiles, locked, move_attempt, saved>>

\* qimage.save(tmp_path, ...) begins: the temporary file exists, incomplete
SaveOpen ==
    /\ spc = "write"
    /\ tmp' = "partial"
    /\ spc' = "writing"
    /\ UNCHANGED <<worker_state, wait_state, run_state, files, faults, stdout, stderr,
                   min_bytes, img_bytes, dest, bad_tiles, locked, move_attempt, saved>>

\* qimage.save ends, 573-590: the file is complete, or save raised / returned False
WriteOutcomes == {"ok", "raises", "false"}

SaveWritten(o) ==
    /\ spc = "writing"
    /\ IF o = "ok"
       THEN /\ tmp' = "complete"
            /\ spc' = "size"
            /\ UNCHANGED <<faults, stderr, saved>>
       ELSE /\ faults < MaxFaults
            /\ faults' = faults + 1
            /\ tmp' = RemoveTmp
            /\ stderr' = Append(stderr,
                  [ev |-> IF o = "raises" THEN "atomic_save_failed_to_write"
                          ELSE "atomic_save_qimage_save_returned_false"])
            /\ saved' = "False"
            /\ spc' = "done"
    /\ UNCHANGED <<worker_state, wait_state, run_state, files, stdout,
                   min_bytes, img_bytes, dest, bad_tiles, locked, move_attempt>>

\* a mistaken check: no image is too small
TooSmall_never == FALSE

\* if (min_bytes or 0) > 0 and size < min_bytes, 595
TooSmall == min_bytes > 0 /\ img_bytes < min_bytes

SaveCheckSize ==
    /\ spc = "size"
    /\ spc' = IF TooSmall THEN "quarantine" ELSE "replace"
    /\ move_attempt' = 0
    /\ UNCHANGED <<worker_state, wait_state, run_state, files, faults, stdout, stderr,
                   min_bytes, img_bytes, dest, tmp, bad_tiles, locked, saved>>

\* a mistaken quarantine: the temporary file is never moved
CanQuarantine_never == FALSE

\* os.replace(tmp_path, bad_path), or os.rename(tmp_path, bad_path), 604-610
CanQuarantine == "tmp" \notin locked /\ "bad_path" \notin locked

\* 596-621: the temporary file goes to _bad_tiles; if it cannot be moved it is
\* removed and the record carries no bad_path; if _bad_tiles cannot be made it
\* is removed and there is no record
SaveQuarantine ==
    /\ spc = "quarantine"
    /\ IF "bad_dir" \in locked
       THEN /\ tmp' = RemoveTmp
            /\ UNCHANGED <<bad_tiles, stdout>>
       ELSE IF CanQuarantine
       THEN /\ tmp' = "absent"
            /\ bad_tiles' = "present"
            /\ stdout' = Append(stdout, [ev |-> "atomic_save_too_small",
                                         bad_path |-> Some("_bad_tiles")])
       ELSE /\ tmp' = RemoveTmp
            /\ stdout' = Append(stdout, [ev |-> "atomic_save_too_small", bad_path |-> None])
            /\ UNCHANGED bad_tiles
    /\ saved' = "False"
    /\ spc' = "done"
    /\ UNCHANGED <<worker_state, wait_state, run_state, files, faults, stderr,
                   min_bytes, img_bytes, dest, locked, move_attempt>>

\* os.replace / os.rename of the temporary file onto the canonical path
CanMove == "tmp" \notin locked /\ "dest" \notin locked

\* one call that moves the temporary file into place: os.replace (632-636),
\* os.replace again (652-655), os.rename (658-661)
MoveSteps == <<"replace", "remove_dest", "replace_again", "rename", "backoff">>
StepAfter(step) == CHOOSE t \in 1..Len(MoveSteps) : t > 1 /\ MoveSteps[t - 1] = step

SaveTryMove(step) ==
    /\ spc = step
    /\ step \in {"replace", "replace_again", "rename"}
    /\ IF CanMove
       THEN /\ dest' = "new"
            /\ tmp' = "absent"
            /\ spc' = "moved"
       ELSE /\ spc' = MoveSteps[StepAfter(step)]
            /\ UNCHANGED <<dest, tmp>>
    /\ UNCHANGED <<worker_state, wait_state, run_state, files, faults, stdout, stderr,
                   min_bytes, img_bytes, bad_tiles, locked, move_attempt, saved>>

\* 640-651: if os.path.exists(dest_path): os.remove(dest_path), failures ignored
SaveRemoveDest ==
    /\ spc = "remove_dest"
    /\ dest' = IF "dest" \in locked THEN dest ELSE "absent"
    /\ spc' = "replace_again"
    /\ UNCHANGED <<worker_state, wait_state, run_state, files, faults, stdout, stderr,
                   min_bytes, img_bytes, tmp, bad_tiles, locked, move_attempt, saved>>

\* a mistaken loop: the move is tried again for ever
MoreMoveAttempts_unbounded(n) == TRUE

\* for attempt in range(3), 632
MoreMoveAttempts(n) == n < MoveAttempts

\* 663-675: the next of the attempts, or atomic_save_move_failed
SaveBackoff ==
    /\ spc = "backoff"
    /\ move_attempt' = move_attempt + 1
    /\ IF MoreMoveAttempts(move_attempt + 1)
       THEN /\ spc' = "replace"
            /\ UNCHANGED <<tmp, stderr, saved>>
       ELSE /\ stderr' = Append(stderr, [ev |-> "atomic_save_move_failed"])
            /\ tmp' = RemoveTmp
            /\ saved' = "False"
            /\ spc' = "done"
    /\ UNCHANGED <<worker_state, wait_state, run_state, files, faults, stdout,
                   min_bytes, img_bytes, dest, bad_tiles, locked>>

\* 676-681: atomic_save_ok, return True
SaveMoved ==
    /\ spc = "moved"
    /\ stdout' = Append(stdout, [ev |-> "atomic_save_ok"])
    /\ saved' = "True"
    /\ spc' = "done"
    /\ UNCHANGED <<worker_state, wait_state, run_state, files, faults, stderr,
                   min_bytes, img_bytes, dest, tmp, bad_tiles, locked, move_attempt>>

(***************************************************************************)
(* The attempt around the two helpers, 1520-1544.                          *)
(***************************************************************************)
\* finished = _wait_for_job(...): if not finished: last_err = "timeout"; continue
AfterWait ==
    /\ pc = "waiting"
    /\ wpc = "returned"
    /\ IF finished = "True"
       THEN /\ pc' = "rendered"
            /\ UNCHANGED last_err
       ELSE /\ pc' = "retry"
            /\ last_err' = "timeout"
    /\ UNCHANGED <<worker_state, attempt_state, kept, env, setup, terminate, expected_total, cursor,
                   attempts, success, counts, renders, index, exit_code, stdout, stderr>>

\* success = _atomic_save_image(...): if not success: last_err = "save_failed_or_too_small"
AfterSave ==
    /\ pc = "rendered"
    /\ spc = "done"
    /\ success' = (saved = "True")
    /\ last_err' = IF saved = "True" THEN last_err ELSE "save_failed_or_too_small"
    /\ files' = IF dest = "absent" THEN files \ {CurTile} ELSE files \cup {CurTile}
    /\ pc' = "retry"
    /\ UNCHANGED <<worker_state, attempt_state, index_file, env, setup, terminate, expected_total, cursor,
                   attempts, counts, renders, index, exit_code, stdout, stderr>>

(***************************************************************************)
(* One attempt of one tile: the state of an xyz run that has just started  *)
(* the render job of its first tile and enters _wait_for_job.              *)
(***************************************************************************)
InitAttempt ==
    /\ WorkerAtRest
    /\ index_file = [state |-> "absent", layers |-> << >>]
    /\ dest \in {"absent", "old"}
    /\ files = IF dest = "old" THEN {TileFile(XyzArgs, TileAt(Setup(XyzArgs).plan[1], 1))} ELSE {}
    /\ runs = 1
    /\ faults = 0
    /\ signals = 0
    /\ pc = "waiting"
    /\ args = XyzArgs
    /\ terminate = FALSE
    /\ scheme = Setup(XyzArgs).scheme
    /\ zoom = Setup(XyzArgs).zoom
    /\ publish = Setup(XyzArgs).publish
    /\ plan = Setup(XyzArgs).plan
    /\ files0 = {}
    /\ expected_total = Setup(XyzArgs).expected
    /\ lvl = 1
    /\ pos = 1
    /\ attempts = 1
    /\ success = FALSE
    /\ last_err = ""
    /\ total_generated = 0
    /\ level_generated = 0
    /\ error_count = 0
    /\ renders = 1
    /\ index_read = NotRead
    /\ final_status = ""
    /\ exit_code = -1
    /\ stdout = << >>
    /\ stderr = << >>
    /\ job_api \in JobApis
    /\ job = "running"
    /\ timeout_sec \in 1..MaxTimeout
    /\ clock = 0
    /\ polls = 0
    /\ wpc = IF job_api = "neither" THEN "poll" ELSE "flag"
    /\ finished = "none"
    /\ min_bytes = 0
    /\ img_bytes = 0
    /\ tmp = "absent"
    /\ bad_tiles = "absent"
    /\ locked = {}
    /\ spc = "idle"
    /\ move_attempt = 0
    /\ saved = "none"

NextAttempt ==
    \/ Signal
    \/ JobEnds
    \/ WaitCheckFlag
    \/ \E raises \in BOOLEAN : WaitQuery(raises)
    \/ WaitCheckTimeout
    \/ WaitSleep
    \/ WaitPoll
    \/ \E raises \in BOOLEAN : WaitForFinished(raises)
    \/ WaitBlocked
    \/ AfterWait
    \/ AbortBeforeSave
    \/ \E f \in Locks : FsLock(f)
    \/ \E f \in Locks : FsUnlock(f)
    \/ Kill
    \/ \E mb \in 0..MaxBytes, ib \in 1..MaxBytes : SaveBegin(mb, ib)
    \/ SaveOpen
    \/ \E o \in WriteOutcomes : SaveWritten(o)
    \/ SaveCheckSize
    \/ SaveQuarantine
    \/ \E step \in {"replace", "replace_again", "rename"} : SaveTryMove(step)
    \/ SaveRemoveDest
    \/ SaveBackoff
    \/ SaveMoved
    \/ AfterSave

SpecAttempt == InitAttempt /\ [][NextAttempt]_vars

(***************************************************************************)
(* index.json after a run: what the run read (layers_snapshot), what it    *)
(* left on disk (index_file.layers), and the entry of its own key.         *)
(***************************************************************************)
Written == index_read.state # "none"
RunEntry == layer_entry(args, scheme, zoom, publish)
EntriesOf(layers, a) == SelectSeq(layers, LAMBDA l : SameKey(l, a))
Previous == EntriesOf(layers_snapshot, args)
Current == EntriesOf(index_file.layers, args)

\* C1: when index.json already holds an entry of the run's (name, kind), the
\* entry the run writes has the published range [min(previous min, new min),
\* max(previous max, new max)], and the cached range likewise.
C1_MergedRangeIsUnion ==
    (Written /\ Previous # << >>) =>
        LET prev == Previous[1]
            cur  == Current[1]
        IN  /\ cur.published_zoom_min = Min(prev.published_zoom_min, RunEntry.published_zoom_min)
            /\ cur.published_zoom_max = Max(prev.published_zoom_max, RunEntry.published_zoom_max)
            /\ cur.cached_zoom_min = Min(prev.cached_zoom_min, RunEntry.cached_zoom_min)
            /\ cur.cached_zoom_max = Max(prev.cached_zoom_max, RunEntry.cached_zoom_max)

\* C2: in every entry of index.json the published range covers the cached
\* range: published min <= cached min and cached max <= published max.
C2_PublishedCoversCached ==
    \A i \in DOMAIN index_file.layers :
        /\ index_file.layers[i].published_zoom_min <= index_file.layers[i].cached_zoom_min
        /\ index_file.layers[i].cached_zoom_max <= index_file.layers[i].published_zoom_max

\* C3: a run changes only the entry of its own (name, kind): every other entry
\* it read is on disk unchanged afterwards, index.json has exactly one entry of
\* the run's key, and no fewer entries than before.
C3_OtherEntriesKept ==
    Written =>
        /\ \A i \in DOMAIN layers_snapshot :
              ~SameKey(layers_snapshot[i], args) =>
                  \E j \in DOMAIN index_file.layers : index_file.layers[j] = layers_snapshot[i]
        /\ Len(Current) = 1
        /\ Len(index_file.layers) >= Len(layers_snapshot)

C3_Witness ==
    /\ Written
    /\ pc = "exited"
    /\ Len(index_file.layers) = 2
    /\ \E i \in DOMAIN layers_snapshot : ~SameKey(layers_snapshot[i], args)

\* C4 (as amended): a run that finds index.json unparseable treats it as empty
\* and writes an index.json holding exactly its own entry, without writing
\* anything to stderr for it; the run goes on to its exit code, which is
\* non-zero only when no tile was generated and some tile failed.
CorruptLoad == pc = "indexUpdate" /\ index_file.state = "corrupt" /\ pc' = "exitCode"
CorruptExit == pc = "exitCode" /\ index_read.state = "corrupt" /\ pc' = "exited"

Recovered(warned) ==
    /\ CorruptLoad =>
          /\ index_file'.state = "ok"
          /\ index_file'.layers = <<RunEntry>>
          /\ warned <=> (stderr' # stderr)
    /\ CorruptExit =>
          /\ exit_code' \in {0, 2}
          /\ exit_code' = 2 => (total_generated = 0 /\ error_count > 0)

C5_StoredExtentKept ==
    (Written /\ args.extent_override_provided /\ Previous # << >>) =>
        Current[1].extent = Previous[1].extent

C5_Witness ==
    /\ Written
    /\ args.extent_override_provided
    /\ Previous # << >>
    /\ Previous[1].extent # args.extent
    /\ Current[1].extent = Previous[1].extent

(***************************************************************************)
(* The tile loop.                                                          *)
(***************************************************************************)
\* the tile files the run enumerates
PlanTiles ==
    UNION { {TileFile(args, TileAt(plan[l], i)) : i \in 1..NTiles(plan[l])} :
            l \in {k \in DOMAIN plan : ~plan[k].skip} }

\* the loops are over
LoopsDone == pc \in {"afterLoops", "indexUpdate", "exitCode"} \/ (pc = "exited" /\ Written)

FullyCached == args # NoArgs /\ args.skip_existing /\ PlanTiles # {} /\ PlanTiles \subseteq files0

\* C6: a run with --skip_existing on a cache that holds every tile it
\* enumerates starts no render job, fails no tile, and (unless it is cancelled)
\* ends with a generated count equal to the number of those tiles, which is
\* what the run that rendered them counted.
C6_SkipExistingRendersNothing ==
    FullyCached =>
        /\ renders = 0
        /\ error_count = 0
        /\ (LoopsDone /\ ~terminate) => total_generated = Cardinality(PlanTiles)

C6_Witness ==
    /\ FullyCached
    /\ pc = "exited"
    /\ ~terminate
    /\ renders = 0
    /\ total_generated = Cardinality(PlanTiles)
    /\ total_generated > 1

\* an attempt of the current tile ends without a tile: timeout, render error,
\* image too small, write failed
FailedAttempt ==
    /\ ~terminate
    /\ \/ pc = "waiting" /\ pc' \notin {"waiting", "rendered"}
       \/ pc = "rendered" /\ pc' # pc /\ ~success'

\* C7: a render job is started only as attempt number <= tile_retries + 1 of
\* its tile; an attempt that times out, fails to render, is too small or cannot
\* be written counts once, leaves the run in the retry loop (it does not
\* exit) and, while attempts remain, the next step starts another render job.
AttemptStep ==
    /\ (Running /\ renders' # renders) =>
          /\ renders' = renders + 1
          /\ attempts' = attempts + 1
          /\ attempts' <= args.tile_retries + 1
    /\ FailedAttempt =>
          /\ pc' = "retry"
          /\ attempts' = attempts
          /\ renders' = renders
          /\ exit_code' = exit_code
          /\ <<lvl', pos'>> = <<lvl, pos>>
    /\ (pc = "retry" /\ pc' # pc /\ ~success /\ ~terminate /\ attempts <= args.tile_retries) =>
          pc' = "waiting"

C7_AttemptsBounded == [][AttemptStep]_vars

C7_Witness ==
    /\ pc = "retry"
    /\ ~terminate
    /\ ~success
    /\ args.tile_retries = MaxRetries
    /\ attempts = args.tile_retries + 1
    /\ last_err = "save_failed_or_too_small"

\* the step that gives a tile up
TileFailed == pc = "retry" /\ pc' = "tile" /\ ~success

\* C8: a tile that is given up (every attempt timed out, or failed otherwise)
\* adds exactly one to the error counter and exactly one tile_skipped warning,
\* and the run goes on with the next tile; a run that was not cancelled has
\* counted every tile as generated or failed when its loops end; and the final
\* status is error only when no tile was generated.
FailureStep ==
    /\ TileFailed =>
          /\ error_count' = error_count + 1
          /\ total_generated' = total_generated
          /\ Len(stderr') = Len(stderr) + 1
          /\ stderr'[Len(stderr')].ev = "tile_skipped"
          /\ stderr'[Len(stderr')].reason = last_err
          /\ <<lvl', pos'>> = <<lvl, pos + 1>>
    /\ (pc' = "afterLoops" /\ ~terminate') =>
          total_generated' + error_count' = SumTiles(plan')
    /\ final_status' = "error" => (total_generated' = 0 /\ error_count' > 0)

C8_FailedTileCountedOnce == [][FailureStep]_vars

C8_Witness ==
    /\ pc = "exited"
    /\ ~terminate
    /\ final_status = "completed"
    /\ error_count = 1
    /\ total_generated > 0
    /\ total_generated + error_count = SumTiles(plan)
    /\ \E i \in DOMAIN stderr :
          /\ stderr[i].ev = "tile_skipped"
          /\ stderr[i].reason = "timeout"
          /\ stderr[i].attempts = MaxRetries + 1

\* C9: the final status is aborted when the flag is set, otherwise error
\* exactly when no tile was generated and some tile failed, otherwise
\* completed; and the exit code of a run that reported its status is non-zero
\* exactly when that status is error.
StatusStep ==
    /\ (pc = "indexUpdate" /\ pc' = "exitCode") =>
          final_status' = IF terminate THEN "aborted"
                          ELSE IF total_generated = 0 /\ error_count > 0 THEN "error"
                          ELSE "completed"
    /\ (pc = "exitCode" /\ pc' = "exited") =>
          ((exit_code' # 0) <=> (final_status = "error"))

C9_StatusDecidesExitCode == [][StatusStep]_vars

\* a status record on stdout: the aborted record, or the status of index_written
StatusRecords == {i \in DOMAIN stdout : stdout[i].ev \in {"status", "index_written"}}

\* C10: every run that started its tile loops has written a final status
\* record by the time it exits.
C10_FinalStatusEmitted ==
    (pc = "exited" /\ args # NoArgs /\ ~Setup(args).fatal) => StatusRecords # {}

(***************************************************************************)
(* The tile save and the render wait, under SpecAttempt.                   *)
(***************************************************************************)
\* the image that was written is smaller than MIN_TILE_BYTES
Undersized == min_bytes > 0 /\ tmp # "partial" /\ spc \notin {"idle", "write", "writing"}
              /\ img_bytes < min_bytes

WriteFailed ==
    \E i \in DOMAIN stderr :
        stderr[i].ev \in {"atomic_save_failed_to_write", "atomic_save_qimage_save_returned_false"}

SaveReturned == spc = "done" /\ ~WriteFailed

\* C11 as the specification states it: with a minimum tile size, an undersized
\* image is never at the canonical path; once the save has returned it has
\* reported failure and the image is absent or under _bad_tiles, nowhere else.
C11_UndersizedAbsentOrQuarantined ==
    Undersized =>
        /\ dest # "new"
        /\ SaveReturned => (saved = "False" /\ tmp = "absent")

\* C11 as the code has it: with a minimum tile size, an undersized image is
\* never at the canonical path and the save reports failure; the image is
\* absent or under _bad_tiles, or still at its temporary path when the file
\* system let it be neither moved nor removed.
C11_UndersizedNeverServed ==
    Undersized =>
        /\ dest # "new"
        /\ SaveReturned => (saved = "False" /\ (tmp = "absent" \/ "tmp" \in locked))

C11_Witness == Undersized /\ SaveReturned /\ bad_tiles = "present" /\ dest = "old"

\* C12: in every state of a tile save, the process being killed between any
\* two steps included, the canonical path holds no partially written image:
\* it is created or replaced only by moving the completely written,
\* size-checked temporary file onto it.
C12_CanonicalNeverPartial ==
    [][/\ dest' # "partial"
       /\ (dest' # dest /\ dest' # "absent") =>
              /\ dest' = "new"
              /\ tmp = "complete" /\ tmp' = "absent"
              /\ ~(min_bytes > 0 /\ img_bytes < min_bytes)
       /\ spc = "killed" => dest' = dest]_vars

C12_Witness == spc = "killed" /\ tmp = "partial" /\ dest = "old"

\* the step that handles an image that failed the size check
QuarantineStep == spc = "quarantine" /\ spc' = "done"

NamesQuarantine(out) ==
    /\ Len(out) > 0
    /\ out[Len(out)].ev = "atomic_save_too_small"
    /\ out[Len(out)].bad_path # None

\* C13 as the specification states it: when the size check fails the
\* temporary file is never deleted: it is moved into _bad_tiles and a record
\* naming its quarantine location is emitted.
C13_UndersizedAlwaysQuarantined ==
    [][QuarantineStep =>
          /\ bad_tiles' = "present"
          /\ Len(stdout') = Len(stdout) + 1
          /\ NamesQuarantine(stdout')]_vars

\* C13 as the code has it: when the size check fails and the temporary file
\* can be moved into _bad_tiles, it is moved there and a record naming that
\* location is emitted; when it cannot, it is deleted if it can be, nothing
\* reaches _bad_tiles, and the record, if any, names no location.
C13_UndersizedQuarantinedWhenPossible ==
    [][QuarantineStep =>
          IF locked \cap {"bad_dir", "bad_path", "tmp"} = {}
          THEN /\ bad_tiles' = "present"
               /\ tmp' = "absent"
               /\ Len(stdout') = Len(stdout) + 1
               /\ NamesQuarantine(stdout')
          ELSE /\ bad_tiles' = bad_tiles
               /\ tmp' = (IF "tmp" \in locked THEN tmp ELSE "absent")
               /\ ~(Len(stdout') > Len(stdout) /\ NamesQuarantine(stdout'))]_vars

C13_Witness ==
    /\ SaveReturned
    /\ bad_tiles = "present"
    /\ tmp = "absent"
    /\ NamesQuarantine(stdout)

\* the step after the last failed try of the move
MoveGivenUp == spc = "backoff" /\ spc' = "done"

FailedSaveHandled ==
    (pc = "rendered" /\ spc = "done" /\ saved = "False" /\ pc' # pc) =>
        /\ pc' = "retry"
        /\ ~success'
        /\ last_err' = "save_failed_or_too_small"
        /\ exit_code' = exit_code

\* C14 as the specification states it: the move is tried a bounded number of
\* times; when every try fails the save returns failure, the temporary file
\* is removed, and the caller counts a failed attempt and goes on.
C14_MoveFailureRemovesTemp ==
    [][/\ move_attempt' <= MoveAttempts
       /\ MoveGivenUp => (saved' = "False" /\ tmp' = "absent")
       /\ FailedSaveHandled]_vars

\* C14 as the code has it: the move is tried MoveAttempts times; when every
\* try fails the save returns failure, the temporary file is removed unless
\* the file system refuses that too, and the caller counts a failed attempt
\* and goes on.
C14_MoveFailureIsFailedAttempt ==
    [][/\ move_attempt' <= MoveAttempts
       /\ MoveGivenUp =>
              /\ move_attempt' = MoveAttempts
              /\ saved' = "False"
              /\ tmp' = (IF "tmp" \in locked THEN tmp ELSE "absent")
              /\ dest' # "new"
       /\ FailedSaveHandled]_vars

C14_Witness ==
    /\ pc = "retry"
    /\ move_attempt = MoveAttempts
    /\ saved = "False"
    /\ tmp = "absent"
    /\ ~success

\* C15: the render wait never blocks: whichever status query the job exposes,
\* a job still running when the time waited exceeds the timeout is cancelled
\* and the wait returns, so no wait on a running job is still going on more
\* than one polling interval past the timeout.
C15_WaitNeverBlocks ==
    (Waiting /\ job = "running") => clock <= timeout_sec + 1

TimeoutReported == \E i \in DOMAIN stderr : stderr[i].ev = "render_timeout"

\* C16: when the flag is set during a render wait the job is cancelled and
\* the wait returns a result that the caller can tell apart from a timeout:
\* a wait ended by the flag is not recorded as "timeout".
C16_CancelledToldApart ==
    (pc = "retry" /\ finished = "False" /\ ~TimeoutReported) =>
        /\ job = "cancelled"
        /\ last_err # "timeout"

(***************************************************************************)
(* What a run accepts and what it enumerates, under SpecGrid.              *)
(***************************************************************************)
InvalidExtent(e) == e[3] <= e[1] \/ e[4] <= e[2]

Started == args # NoArgs

\* C17: in every scheme a run whose extent has maxX <= minX or maxY <= minY
\* is rejected as a fatal input error before any tile is enumerated or
\* rendered: it has exited with a non-zero code and started no render job.
C17_InvalidExtentRejected ==
    (Started /\ InvalidExtent(args.extent)) =>
        /\ pc = "exited"
        /\ exit_code \notin {0, -1}
        /\ renders = 0

FatalCondition(a) ==
    \/ ~a.project_readable
    \/ ~a.target_found
    \/ a.remote /\ ~a.allow_remote
    \/ InvalidExtent(a.extent)

\* C18: on every fatal input (unreadable project, layer or theme not found,
\* remote provider without allow_remote, invalid extent) the process has
\* exited with a non-zero code, having started no render job, written no
\* tile file and left index.json as it found it.
C18_FatalInputLeavesNoTrace ==
    (Started /\ FatalCondition(args)) =>
        /\ pc = "exited"
        /\ exit_code \notin {0, -1}
        /\ renders = 0
        /\ files = files0
        /\ ~Written

\* the full grids of the levels the command line asks for
FullGrid(z) == {<<z, x, y>> : x \in 0..(Pow2(z) - 1), y \in 0..(Pow2(z) - 1)}
RequestedGrid == UNION {FullGrid(z) : z \in args.zoom_min..args.zoom_max}
RequestedFiles == {TileFile(args, t) : t \in RequestedGrid}

\* C19: in the custom scheme a run enumerates, for each level z of the zoom
\* range it was asked for, exactly the tiles (z, x, y) with x and y in
\* [0, 2^z - 1], each once, and expected_total is the sum of 4^z over those
\* levels.
C19_CustomEnumeratesRequestedGrid ==
    (Started /\ scheme = "custom" /\ ~FatalCondition(args)) =>
        /\ PlanTiles = RequestedFiles
        /\ expected_total = Cardinality(RequestedGrid)
        /\ (LoopsDone /\ ~terminate) =>
              /\ renders = Cardinality(RequestedGrid)
              /\ total_generated = Cardinality(RequestedGrid)

\* C20: in xyz world mode a run renders exactly the full 2^z x 2^z grid of
\* each level it was asked for and no other level, whatever the extent: a
\* request for zoom 0 only renders the one tile 0/0/0.
C20_WorldModeRendersRequestedGrid ==
    (Started /\ scheme = "xyz" /\ args.xyz_mode = "world" /\ ~FatalCondition(args)) =>
        /\ PlanTiles = RequestedFiles
        /\ (LoopsDone /\ ~terminate) =>
              /\ renders = Cardinality(RequestedGrid)
              /\ RequestedFiles \subseteq files

\* C30: a tile save that fails leaves a tile file that was already at the
\* canonical path in place and unchanged.
C30_FailedSaveKeepsCachedTile ==
    (pc = "rendered" /\ spc = "done" /\ saved = "False" /\ CurTile \in files) => dest = "old"

(***************************************************************************)
(* The grid resolution, under SpecResolve.                                 *)
(***************************************************************************)
\* the cell of tile (x, y) of a 2^z x 2^z xyz grid and the extent e share
\* an area: compared in units of 1 / 2^z so that every bound is an integer
CellOverlaps(e, z, x, y) ==
    LET tiles == Pow2(z)
    IN  /\ (e[1] + M) * tiles < (x + 1) * 2 * M
        /\ x * 2 * M < (e[3] + M) * tiles
        /\ (M - e[4]) * tiles < (y + 1) * 2 * M
        /\ y * 2 * M < (M - e[2]) * tiles

InsideGrid(e) == -M <= e[1] /\ e[3] <= M /\ -M <= e[2] /\ e[4] <= M

InLevel(l, x, y) == l.x0 <= x /\ x <= l.x1 /\ l.y0 <= y /\ y <= l.y1

\* C21: in xyz partial mode, for every level and every extent inside the
\* grid bounds, the enumerated range holds every tile whose cell intersects
\* the extent and no tile that lies outside the extent.
C21_SpanIsTilesMeetingExtent ==
    (Started /\ pc = "level" /\ scheme = "xyz" /\ args.xyz_mode = "partial"
       /\ InsideGrid(args.extent)) =>
        \A l \in DOMAIN plan :
            \A x \in 0..(Pow2(plan[l].z) - 1), y \in 0..(Pow2(plan[l].z) - 1) :
                InLevel(plan[l], x, y) <=> CellOverlaps(args.extent, plan[l].z, x, y)

(***************************************************************************)
(* Runs with a grid preset, under SpecPreset.                              *)
(***************************************************************************)
\* the origin the preset declares for a level
DeclaredOrigin(level) ==
    LET ms == tile_matrix_preset.matrices
        k  == CHOOSE i \in DOMAIN ms : ms[i].source_level = level
    IN  <<ms[k].origin_x, ms[k].origin_y>>

PresetRun == Started /\ args.preset /\ FatalInput(args) = "none"

\* C22: with a grid preset the origin of every matrix, as used for the tile
\* bounding boxes and as recorded in the tile_matrix_set of index.json, is
\* the origin the preset declares, whatever the extent of the run and of
\* the runs before it.
C22_PresetOriginStable ==
    /\ PresetRun =>
          \A l \in DOMAIN plan :
              <<plan[l].origin_x, plan[l].origin_y>> = DeclaredOrigin(plan[l].z)
    /\ \A i \in DOMAIN index_file.layers :
          LET tms == index_file.layers[i].tile_matrix_set
          IN  tms # None =>
                /\ tms[1].top_left_corner =
                       <<tile_matrix_preset.origin_x, tile_matrix_preset.origin_y>>
                /\ \A k \in DOMAIN tms[1].matrices :
                       tms[1].matrices[k].top_left = DeclaredOrigin(tms[1].matrices[k].z)

C22_Witness ==
    /\ PresetRun
    /\ runs = 2
    /\ Written
    /\ index_read.state = "ok"
    /\ \E i \in DOMAIN index_read.layers :
          SameKey(index_read.layers[i], args) /\ index_read.layers[i].extent # args.extent
    /\ \E i \in DOMAIN index_file.layers : index_file.layers[i].tile_matrix_set # None

(***************************************************************************)
(* Cancellation and progress, under Spec.                                  *)
(***************************************************************************)
\* a render job is started / a tile save is begun
RenderStarts == renders' = renders + 1
SaveBegins == pc = "rendered" /\ pc' = "retry"

\* C23: once the cancellation flag is set, in every scheme no further render
\* job is started and no tile save is begun.
C23_NoWorkAfterCancel ==
    [][terminate => (~RenderStarts /\ ~SaveBegins)]_vars

(***************************************************************************)
(* The levels of a preset run, under SpecPreset.                           *)
(***************************************************************************)
\* the extent e lies wholly beside the area a preset matrix m covers
MissesMatrix(e, m) ==
    LET left   == m.origin_x
        right  == m.origin_x + m.matrix_width * m.tile_width * m.resolution
        top    == m.origin_y
        bottom == m.origin_y - m.matrix_height * m.tile_height * m.resolution
    IN  e[3] <= left \/ right <= e[1] \/ e[4] <= bottom \/ top <= e[2]

EmptySpan(e, m) == MissesMatrix(e, m) \/ _compute_tile_span(e, m) = None

\* the level of the plan that is rendered for the matrix m covers the matrix
RenderedInFull(m) ==
    \E l \in DOMAIN plan :
        /\ plan[l].z = m.source_level
        /\ ~plan[l].skip
        /\ plan[l].x0 = 0 /\ plan[l].x1 = m.matrix_width - 1
        /\ plan[l].y0 = 0 /\ plan[l].y1 = m.matrix_height - 1

Rendered(m) == \E l \in DOMAIN plan : plan[l].z = m.source_level /\ ~plan[l].skip

\* C24: in a preset run a selected matrix whose span resolved from the extent
\* is empty is enumerated over its whole matrix_width x matrix_height, and
\* every selected matrix has a level that is rendered.
C24_EmptySpanRendersWholeMatrix ==
    PresetRun =>
        \A i \in DOMAIN selected(zoom) :
            LET m == selected(zoom)[i]
            IN  /\ EmptySpan(args.extent, m) => RenderedInFull(m)
                /\ Rendered(m)

RenderedLevels == {plan[l].z : l \in {k \in DOMAIN plan : ~plan[k].skip}}

LevelsInRange ==
    {_matrix_source_level(tile_matrix_preset.matrices[i]) :
        i \in {k \in DOMAIN tile_matrix_preset.matrices :
                  InRange(tile_matrix_preset.matrices[k], zoom[1], zoom[2])}}

\* the tiles to render do not depend on --publish_zoom_min / --publish_zoom_max
PublishBlind ==
    \A p \in PublishOptions, q \in PublishOptions :
        plan = Setup([args EXCEPT !.publish_zoom_min = p, !.publish_zoom_max = q]).plan

\* C25: in a preset run the levels rendered are exactly the preset levels
\* within [zoom_min, zoom_max], and the publish range has no part in which
\* tiles are rendered.
C25_RendersLevelsInZoomRange ==
    PresetRun => (RenderedLevels = LevelsInRange /\ PublishBlind)

(***************************************************************************)
(* expected_total and the level_done records.                              *)
(***************************************************************************)
\* the tiles the level loops enumerate: those of the levels not passed over
EnumeratedTiles == SumTiles(SelectSeq(plan, LAMBDA l : ~l.skip))

Reported(i) == stdout[i].expected_total

\* C26: in every scheme expected_total is the sum, over the levels to render,
\* of the tiles enumerated for the level, and 1 when that sum is zero: every
\* record written with an expected_total carries that number, which is at
\* least 1.
C26_ExpectedIsEnumerated ==
    (Started /\ FatalInput(args) = "none") =>
        \A i \in DOMAIN stdout :
            "expected_total" \in DOMAIN stdout[i] =>
                /\ Reported(i) >= 1
                /\ Reported(i) = IF EnumeratedTiles = 0 THEN 1 ELSE EnumeratedTiles

\* the step writes a level_done record
LevelDoneWritten ==
    /\ Len(stdout') = Len(stdout) + 1
    /\ stdout'[Len(stdout')].ev = "level_done"

LevelDones(out) == {i \in DOMAIN out : out[i].ev = "level_done"}

\* every tile of the level in hand has been saved, passed over or given up
LevelComplete == pos > NTiles(CurLevel)

RunCompleted == pc \in {"indexUpdate", "exitCode"} /\ ~terminate

Events(j, ev) == {i \in DOMAIN worker_out : worker_out[i].jobId = j /\ worker_out[i].event = ev}

StartedThenExit(j) ==
    /\ Cardinality(Events(j, "started")) = 1
    /\ Cardinality(Events(j, "exit")) = 1
    /\ \A i \in Events(j, "started"), k \in Events(j, "exit") : i < k

\* C28: every run command the worker loop accepts gets exactly one started
\* event and, in the end, exactly one exit event with its jobId, the started
\* event first, however many jobs run at once and whether or not the child
\* can be launched (as long as the worker loop itself has not ended).
C28_EveryJobStartsAndExits ==
    \A j \in JobIds :
        (job_threads[j] = "accepted") ~> (StartedThenExit(j) \/ loop = "ended")

(***************************************************************************)
(* Termination signals, under SpecSignal.                                  *)
(***************************************************************************)
FlagCleared == terminate /\ ~terminate'

\* C29: a termination signal delivered at any moment after the first handler
\* is installed is not lost: the flag it sets stays set until the process
\* exits, and the run it reaches ends with the status aborted.
C29_SignalNeverLost ==
    /\ [][FlagCleared => pc \in {"idle", "exited"}]_vars
    /\ []((runs = 1 /\ signals = 1 /\ Written) => final_status = "aborted")

\* C39: no stdout or stderr event of a job is written after the exit event of
\* that job: every line of the child is forwarded before exit is reported.
C39_NoOutputAfterExit ==
    \A j \in JobIds :
        \A i \in Events(j, "exit"), k \in Events(j, "stdout") \cup Events(j, "stderr") : k < i

(***************************************************************************)
(* get_project, under SpecProject.                                         *)
(***************************************************************************)
\* C38: whatever calls of get_project came before, failed loads among them, a
\* call get_project(P) that returns normally returns an instance whose loaded
\* content is the project at P.
C38_ReturnedProjectIsRequested ==
    \A i \in DOMAIN project_calls :
        project_calls[i].outcome = "returned" =>
            project_calls[i].content = Some(project_calls[i].path)

(***************************************************************************)
(* index.json across runs, under SpecCrash and SpecCatalog.                *)
(***************************************************************************)
Persisted(file) == {<<file.layers[i].name, file.layers[i].kind>> : i \in DOMAIN file.layers}

\* C31: if the process is killed while index.json is being saved, the file is
\* the previous catalog or the complete new one: no step leaves a file that
\* cannot be parsed where a catalog was, and no entry that was persisted is
\* missing afterwards.
C31_CatalogSavedAtomically ==
    [][/\ index_file.state = "ok" => index_file'.state = "ok"
       /\ Persisted(index_file) \subseteq Persisted(index_file')]_vars

\* the kind of a stored entry: l.get("kind") or "layer"
KindOf(l) == IF l.kind = "" THEN "layer" ELSE l.kind

\* C32: from an absent catalog, after any sequence of runs index.json holds at
\* most one entry per (name, kind), an entry without kind counting as a layer.
C32_OneEntryPerKey ==
    \A i \in DOMAIN index_file.layers, k \in DOMAIN index_file.layers :
        (index_file.layers[i].name = index_file.layers[k].name
         /\ KindOf(index_file.layers[i]) = KindOf(index_file.layers[k])) => i = k

\* a second run for the key that index.json held
C32_Witness ==
    /\ runs = 2
    /\ Written
    /\ index_read.state = "ok"
    /\ \E i \in DOMAIN index_read.layers : SameKey(index_read.layers[i], args)
    /\ Len(index_file.layers) = 1

\* C33: every entry of index.json has cached_zoom_min <= cached_zoom_max and
\* published_zoom_min <= published_zoom_max, whatever zoom arguments the runs
\* were given and whether or not an entry was merged.
C33_RangesOrdered ==
    \A i \in DOMAIN index_file.layers :
        /\ index_file.layers[i].cached_zoom_min <= index_file.layers[i].cached_zoom_max
        /\ index_file.layers[i].published_zoom_min <= index_file.layers[i].published_zoom_max

MatrixLevels(l) ==
    IF l.tile_matrix_set = None THEN {}
    ELSE {l.tile_matrix_set[1].matrices[k].z : k \in DOMAIN l.tile_matrix_set[1].matrices}

\* C34: in every wmts entry of index.json each level of the published range
\* has a matrix in tile_matrix_set.matrices, also after the published range
\* was widened by the merge with the entry that was there.
C34_PublishedLevelsHaveMatrix ==
    \A i \in DOMAIN index_file.layers :
        LET l == index_file.layers[i]
        IN  l.scheme = "wmts" =>
                \A z \in l.published_zoom_min..l.published_zoom_max : z \in MatrixLevels(l)

(***************************************************************************)
(* Failures and cancellation, under Spec.                                  *)
(***************************************************************************)
\* the step counts a tile as failed, or writes a tile_skipped warning
CountedAsFailed ==
    \/ error_count' = error_count + 1
    \/ /\ Len(stderr') = Len(stderr) + 1
       /\ stderr'[Len(stderr')].ev = "tile_skipped"

\* C35: the error counter is incremented and tile_skipped is written only for
\* a tile for which all tile_retries + 1 attempts were made and failed; a tile
\* that the cancellation flag interrupted, or kept from starting, is not
\* counted as a failure.
C35_OnlyExhaustedTilesFail ==
    [][CountedAsFailed => (~success /\ attempts = Max(0, args.tile_retries) + 1)]_vars

\* the levels of which the run generated a tile
GeneratedLevels == {stdout[i].z : i \in {k \in LevelDones(stdout) : stdout[k].generated_level > 0}}

\* C36: the cached zoom range a run writes to index.json holds only levels
\* whose tiles the run processed: a level the run did not reach because of
\* the cancellation, or of which no tile was generated, is not in it (here for
\* the entry a run writes when index.json had none of its key).
C36_CachedRangeWasProcessed ==
    (Written /\ Previous = << >>) =>
        \A z \in Current[1].cached_zoom_min..Current[1].cached_zoom_max : z \in GeneratedLevels

\* C37: in every level_done record and every status record, in every scheme
\* and mode, the cumulative generated count is at most the expected total of
\* the same record, so that the percentage is at most 100.
C37_GeneratedWithinExpected ==
    \A i \in DOMAIN stdout :
        stdout[i].ev \in {"level_done", "status"} =>
            stdout[i].total_generated <= stdout[i].expected_total

\* a world-mode run that generated every tile of its two levels
C37_Witness ==
    /\ Started
    /\ args.xyz_mode = "world"
    /\ scheme = "xyz"
    /\ pc = "exited"
    /\ \E i \in LevelDones(stdout) :
          /\ stdout[i].total_generated = stdout[i].expected_total
          /\ stdout[i].total_generated = 5

====
